---- MODULE Spec2Model ----
(***************************************************************************)
(* SOLVEM8 server: the in-memory record store (MemStorage), the payment    *)
(* bridge (PaymentService) and the request layer (registerRoutes).         *)
(*                                                                         *)
(* Granularity.  A handler runs on the single JavaScript thread.  Every    *)
(* MemStorage method does all of its work synchronously when it is called  *)
(* and returns an already-resolved promise, so `await storage.x()` only    *)
(* re-queues the handler ahead of every other request's callback: no other *)
(* request can run there.  A handler is therefore cut into steps only      *)
(* where it awaits something outside the process: the AI generator,        *)
(* bcrypt.hash / bcrypt.compare (thread pool) and the gateway's order      *)
(* call.  Each step below is one such uninterrupted run of handler code.   *)
(***************************************************************************)
EXTENDS Integers, Sequences, FiniteSets, TLC

(* ----------------------------- bounds --------------------------------- *)
MaxUsers == 2
MaxAssignments == 4
MaxPayments == 1
MaxCredits == 2
MaxClock == 1
MaxRecords == 2
MaxUuids == 3

(* ------------------------- program constants --------------------------- *)
InitialFreeAttempts == 3
PackAttempts == 20
SubscriptionDays == 30
MonthlyAmount == 19900
PackAmount == 29900
MinPasswordLen == 8
MinUsernameLen == 2
BcryptRounds == 10
MinPdfTextLen == 10

(* ------------------------------ inputs --------------------------------- *)
Sessions == {"s1"}
Reqs == {1, 2}
Texts == {"", "q"}
FileUrls == {"up/a.pdf"}
Solutions == {"sol"}
Plans == {"monthly", "pack", "yearly"}
OrderIds == {"o1", "o2"}
GatewayOrderIds == {"o1"}
PaymentIds == {"p1"}
BodyPaymentIds == {"", "p1"}
EnvSecrets == {"", "k_live"}
SignKeys == {"dummy_secret", "k_live"}
SignupBodies ==
  { [username |-> "al", email |-> "a@x", password |-> "password1"],
    [username |-> "bo", email |-> "b@x", password |-> "password1"],
    [username |-> "bo", email |-> "b@x", password |-> "short"] }
OneSignupBody ==
  { [username |-> "al", email |-> "a@x", password |-> "password1"],
    [username |-> "bo", email |-> "b@x", password |-> "short"] }
SignupCaseBodies ==
  { [username |-> "al", email |-> "a@x", password |-> "password1"],
    [username |-> "AL", email |-> "b@x", password |-> "password1"],
    [username |-> "bo", email |-> "A@x", password |-> "password1"],
    [username |-> "bo", email |-> "b@x", password |-> "password1"],
    [username |-> "al", email |-> "B@x", password |-> "short"] }
InsertUsers ==
  { [username |-> "al", email |-> "a@x", password |-> "password1"],
    [ username |-> "bo", email |-> "b@x", password |-> "password1",
      freeAttempts |-> 0, subscriptionStatus |-> "active",
      subscriptionExpiresAt |-> 30 ] }
UserUpdates ==
  { [freeAttempts |-> 0],
    [subscriptionStatus |-> "active", subscriptionExpiresAt |-> 30] }
InsertAssignments ==
  { [ userId |-> 1, fileName |-> "a.pdf", fileUrl |-> "up/a.pdf",
      extractedText |-> "q", solution |-> "sol", attemptCount |-> 1 ],
    [ userId |-> 2, fileName |-> "Text Input", fileUrl |-> "",
      processedOutputUrl |-> "out/a.pdf", extractedText |-> "q",
      solution |-> "sol", attemptCount |-> 1 ] }
AssignmentUpdates ==
  { [processedOutputUrl |-> "out/b.pdf"],
    [solution |-> "sol2", attemptCount |-> 2] }
InsertPayments ==
  { [ userId |-> 1, amount |-> MonthlyAmount, orderId |-> "o1",
      status |-> "pending", planType |-> "monthly" ],
    [ userId |-> 2, amount |-> PackAmount, currency |-> "INR",
      orderId |-> "o1", status |-> "completed", paymentId |-> "p1",
      planType |-> "pack" ],
    [ userId |-> 1, amount |-> PackAmount, orderId |-> "o2",
      status |-> "pending", planType |-> "pack" ] }
PaymentUpdates ==
  { [status |-> "completed", paymentId |-> "p1"] }
RecordIds == 1..(MaxRecords + 1)
MimeTypes ==
  { "application/pdf",
    "application/vnd.openxmlformats-officedocument.wordprocessingml.document",
    "application/vnd.openxmlformats-officedocument.spreadsheetml.sheet",
    "image/jpeg", "image/png", "text/plain" }
PdfTexts == {"", "Q1 only", "Solve x + 2 = 5"}
OcrTexts == {"", " ", "Scanned question"}
DocxTexts == {" Essay topic "}
SheetTexts == {"Sheet: S1"}
NoFile == [mimetype |-> ""]
Files ==
  { NoFile, [mimetype |-> "text/plain"],
    [mimetype |->
       "application/vnd.openxmlformats-officedocument.wordprocessingml.document"] }
PdfUrls == {"pdf/1.pdf"}
LoginBodies ==
  { [email |-> "A@x", password |-> "password1"],
    [email |-> "b@x", password |-> "password1"],
    [email |-> "a@x", password |-> "password2"],
    [email |-> "a@x", password |-> "short"] }

VARIABLES
  envSecret,            \* process.env.RAZORPAY_KEY_SECRET ("" when unset)
  usersData,            \* MemStorage.usersData, in insertion order
  assignmentsData,      \* MemStorage.assignmentsData, in insertion order
  paymentsData,         \* MemStorage.paymentsData, in insertion order
  currentUserId,
  currentAssignmentId,
  currentPaymentId,
  sessions,             \* session id -> userId carried by the session (0: none)
  now,                  \* the server clock, in days
  reqs,                 \* the handlers suspended at an external call
  resp,                 \* the response sent last
  ret,                  \* the last direct call of a MemStorage method
  ext,                  \* the extraction in progress, or the last one's result
  tmpFiles,             \* the files in os.tmpdir()
  nextUuid              \* uuidv4(): the number of the next fresh name

vars == <<envSecret, usersData, assignmentsData, paymentsData, currentUserId,
          currentAssignmentId, currentPaymentId, sessions, now, reqs, resp,
          ret, ext, tmpFiles, nextUuid>>

extractor == <<ext, tmpFiles, nextUuid>>

store == <<usersData, assignmentsData, paymentsData, currentUserId,
           currentAssignmentId, currentPaymentId>>

(* ------------------------ JavaScript primitives ------------------------ *)
Max(a, b) == IF a >= b THEN a ELSE b

\* String.prototype.toLowerCase on the strings the requests use.
toLowerCase(s) ==
  CASE s = "A@x" -> "a@x"
    [] s = "B@x" -> "b@x"
    [] s = "AL" -> "al"
    [] OTHER -> s

\* fileUrl.split('/').pop() on the urls the requests use.
LastSegment(url) ==
  CASE url = "up/a.pdf" -> "a.pdf"
    [] OTHER -> url

\* A value used as a string operand of +: undefined (a field the request
\* body lacks, written "") reads "undefined".
Str(v) == IF v = "" THEN "undefined" ELSE v

\* The value a Map lookup or Array.find yields when nothing is found.
Undefined == [id |-> 0]

\* bcrypt.hash(password, 10): a salted one-way hash of the password.
BcryptHash(password) == "$2b$" \o ToString(BcryptRounds) \o "$" \o password

BcryptCompare_anyPassword(password, hash) == TRUE

\* bcrypt.compare(password, hash).
BcryptCompare(password, hash) == hash = BcryptHash(password)

(* ------------------------ Map<number, record> -------------------------- *)
\* A Map keeps its entries in insertion order; set() on a present key
\* replaces the value in place.
MapIndex(m, id) ==
  IF \E i \in 1..Len(m) : m[i].id = id
    THEN CHOOSE i \in 1..Len(m) : m[i].id = id
    ELSE 0

MapGet(m, id) == IF MapIndex(m, id) = 0 THEN Undefined ELSE m[MapIndex(m, id)]

MapSet(m, id, rec) ==
  IF MapIndex(m, id) = 0 THEN Append(m, rec)
  ELSE [m EXCEPT ![MapIndex(m, id)] = rec]

FindFirst_last(m, matches) ==
  IF \E i \in 1..Len(m) : m[i] \in matches
    THEN m[CHOOSE i \in 1..Len(m) :
             /\ m[i] \in matches
             /\ \A j \in (i + 1)..Len(m) : m[j] \notin matches]
    ELSE Undefined

\* Array.from(map.values()).find(pred), pred given as the set of matching
\* records: the first match in insertion order.
FindFirst(m, matches) ==
  IF \E i \in 1..Len(m) : m[i] \in matches
    THEN m[CHOOSE i \in 1..Len(m) :
             /\ m[i] \in matches
             /\ \A j \in 1..(i - 1) : m[j] \notin matches]
    ELSE Undefined

\* A field of an object literal built by spreading `rec`: the caller's value
\* when the caller gave one, else `absent` (the field is undefined).
Opt(rec, f, absent) == IF f \in DOMAIN rec THEN rec[f] ELSE absent

Merge_stale(rec, updates, fields) == rec

\* { ...record, ...updates } for an update that names the fields in `fields`.
Merge(rec, updates, fields) ==
  [f \in DOMAIN rec \cup fields |-> IF f \in fields THEN updates[f] ELSE rec[f]]

(* ----------------------------- MemStorage ------------------------------ *)
getUser(id) == MapGet(usersData, id)

getUserByUsername(username) ==
  FindFirst(usersData,
    {u \in {usersData[i] : i \in 1..Len(usersData)} :
       toLowerCase(u.username) = toLowerCase(username)})

getUserByEmail_caseSensitive(email) ==
  FindFirst(usersData,
    {u \in {usersData[i] : i \in 1..Len(usersData)} : u.email = email})

getUserByEmail(email) ==
  FindFirst(usersData,
    {u \in {usersData[i] : i \in 1..Len(usersData)} :
       toLowerCase(u.email) = toLowerCase(email)})

NewUser_callerValues(id, insertUser) ==
  [ id |-> id,
    username |-> insertUser.username,
    email |-> insertUser.email,
    password |-> BcryptHash(insertUser.password),
    freeAttempts |-> Opt(insertUser, "freeAttempts", InitialFreeAttempts),
    subscriptionStatus |-> Opt(insertUser, "subscriptionStatus", "free"),
    subscriptionExpiresAt |-> Opt(insertUser, "subscriptionExpiresAt", -1) ]

\* The record createUser builds once the hash is there.
NewUser(id, insertUser) ==
  [ id |-> id,
    username |-> insertUser.username,
    email |-> insertUser.email,
    password |-> BcryptHash(insertUser.password),
    freeAttempts |-> InitialFreeAttempts,
    subscriptionStatus |-> "free",
    subscriptionExpiresAt |-> Opt(insertUser, "subscriptionExpiresAt", -1) ]

\* usersData after updateUser(id, updates).
updateUser(id, updates, fields) ==
  IF getUser(id) = Undefined THEN usersData
  ELSE MapSet(usersData, id, Merge(getUser(id), updates, fields))

\* One step of Array.prototype.sort with the comparator
\* (a, b) => b.timestamp - a.timestamp: `rec` goes behind every record
\* whose timestamp is not earlier than its own (the sort is stable).
InsertByTimestampDesc(sorted, rec) ==
  LET k == Cardinality({i \in 1..Len(sorted) :
                          sorted[i].timestamp >= rec.timestamp})
  IN  SubSeq(sorted, 1, k) \o <<rec>> \o SubSeq(sorted, k + 1, Len(sorted))

RECURSIVE SortByTimestampDesc(_)
SortByTimestampDesc(recs) ==
  IF recs = <<>> THEN <<>>
  ELSE InsertByTimestampDesc(
         SortByTimestampDesc(SubSeq(recs, 1, Len(recs) - 1)), recs[Len(recs)])

OwnedBy(userId, assignment) == assignment.userId = userId

\* getAssignmentHistory(userId): the records of the account out of
\* Array.from(assignmentsData.values()), sorted by timestamp, latest first.
getAssignmentHistory(userId) ==
  SortByTimestampDesc(
    SelectSeq(assignmentsData, LAMBDA a : OwnedBy(userId, a)))

getAssignment(id) == MapGet(assignmentsData, id)

createAssignment_noSolution(assignment) ==
  MapSet(assignmentsData, currentAssignmentId,
    [ id |-> currentAssignmentId,
      userId |-> assignment.userId,
      fileName |-> assignment.fileName,
      fileUrl |-> assignment.fileUrl,
      processedOutputUrl |-> Opt(assignment, "processedOutputUrl", ""),
      extractedText |-> assignment.extractedText,
      solution |-> "",
      attemptCount |-> assignment.attemptCount,
      timestamp |-> now ])

\* assignmentsData after createAssignment(assignment).
createAssignment(assignment) ==
  MapSet(assignmentsData, currentAssignmentId,
    [ id |-> currentAssignmentId,
      userId |-> assignment.userId,
      fileName |-> assignment.fileName,
      fileUrl |-> assignment.fileUrl,
      processedOutputUrl |-> Opt(assignment, "processedOutputUrl", ""),
      extractedText |-> assignment.extractedText,
      solution |-> assignment.solution,
      attemptCount |-> assignment.attemptCount,
      timestamp |-> now ])

\* assignmentsData after updateAssignment(id, updates).
updateAssignment(id, updates, fields) ==
  IF getAssignment(id) = Undefined THEN assignmentsData
  ELSE MapSet(assignmentsData, id, Merge(getAssignment(id), updates, fields))

\* paymentsData after createPayment(payment).
createPayment(payment) ==
  MapSet(paymentsData, currentPaymentId,
    [ id |-> currentPaymentId,
      userId |-> payment.userId,
      amount |-> payment.amount,
      currency |-> Opt(payment, "currency", ""),
      paymentId |-> Opt(payment, "paymentId", ""),
      orderId |-> payment.orderId,
      status |-> payment.status,
      planType |-> payment.planType,
      timestamp |-> now ])

getPaymentByOrderId(orderId) ==
  FindFirst(paymentsData,
    {p \in {paymentsData[i] : i \in 1..Len(paymentsData)} : p.orderId = orderId})

\* paymentsData after updatePayment(id, updates).
updatePayment(id, updates, fields) ==
  IF MapGet(paymentsData, id) = Undefined THEN paymentsData
  ELSE MapSet(paymentsData, id, Merge(MapGet(paymentsData, id), updates, fields))

(* --------------------------- PaymentService ---------------------------- *)
\* const razorpayKeySecret = process.env.RAZORPAY_KEY_SECRET || 'dummy_secret'
razorpayKeySecret == IF envSecret = "" THEN "dummy_secret" ELSE envSecret

\* crypto.createHmac('sha256', key).update(body).digest('hex'), taken to be
\* collision free: two digests are equal exactly when key and body are.
\* `flip` is 0 for the digest itself and 1 for the digest with one
\* character changed.
HmacSha256(key, body) == [key |-> key, body |-> body, flip |-> 0]

\* The signatures the requests carry: the digest of o1|p1 under each key,
\* exact and with one character changed.
Signatures ==
  { [key |-> k, body |-> o \o "|" \o p, flip |-> f] :
      k \in SignKeys, o \in GatewayOrderIds, p \in PaymentIds, f \in {0, 1} }

verifyPayment_swapped(orderId, paymentId, signature) ==
  IF razorpayKeySecret = "dummy_secret" THEN TRUE
  ELSE HmacSha256(razorpayKeySecret, Str(paymentId) \o "|" \o Str(orderId))
         = signature

verifyPayment(orderId, paymentId, signature) ==
  IF razorpayKeySecret = "dummy_secret" THEN TRUE
  ELSE HmacSha256(razorpayKeySecret, Str(orderId) \o "|" \o Str(paymentId))
         = signature

(* ------------------------------ requests ------------------------------- *)
Idle ==
  [ kind |-> "none", pc |-> "idle", sess |-> "", userId |-> 0,
    user |-> Undefined, text |-> "", fileUrl |-> "", id |-> 0,
    body |-> Undefined, plan |-> "", amount |-> 0 ]

NoResp == [kind |-> "none", status |-> 0]

\* No MemStorage method has been called directly.
NoRet == [op |-> "none", arg |-> Undefined, value |-> Undefined]

\* No extraction is in progress and none has ended.
NoExtraction ==
  [ pc |-> "idle", owner |-> 0, mimeType |-> "", pdfTemp |-> 0, pngTemp |-> 0,
    text |-> "", ocr |-> "", out |-> "", error |-> "" ]

Respond(kind, status) == [kind |-> kind, status |-> status]

\* A new request takes the lowest free handler slot.
Free(r) ==
  /\ reqs[r].pc = "idle"
  /\ \A q \in Reqs : q < r => reqs[q].pc # "idle"

Pending(kind) == {r \in Reqs : reqs[r].kind = kind}

\* registrationSchema.parse / loginSchema.parse succeed.
ValidEmail(email) == email \in {"a@x", "A@x", "b@x", "B@x"}
ValidRegistration(body) ==
  /\ Len(body.username) >= MinUsernameLen
  /\ ValidEmail(body.email)
  /\ Len(body.password) >= MinPasswordLen
ValidLogin(body) ==
  /\ ValidEmail(body.email)
  /\ Len(body.password) >= MinPasswordLen

(* Of the account it fetched, a handler keeps what it reads again after *)
(* its external call: login the id and the hash, process the quota.     *)
LoginView(user) == [id |-> user.id, password |-> user.password]
QuotaView(user) ==
  [ id |-> user.id, freeAttempts |-> user.freeAttempts,
    subscriptionStatus |-> user.subscriptionStatus ]

Authenticated_anyone(s) == TRUE

(* The authenticate middleware lets the request through. *)
Authenticated(s) == sessions[s] # 0

QuotaExhausted_lapsed(user) ==
  /\ user.subscriptionStatus = "free" \/ user.subscriptionExpiresAt < now
  /\ user.freeAttempts <= 0

QuotaExhausted_strict(user) ==
  user.subscriptionStatus = "free" /\ user.freeAttempts < 0

QuotaExhausted_anyStatus(user) == user.freeAttempts <= 0

(* The quota gate of /api/process. *)
QuotaExhausted(user) ==
  user.subscriptionStatus = "free" /\ user.freeAttempts <= 0

DecrementedAttempts_incr(user) == Max(0, user.freeAttempts + 1)

DecrementedAttempts_floor1(user) == Max(1, user.freeAttempts - 1)

DecrementedAttempts_reread(user) ==
  Max(0, getUser(user.id).freeAttempts - 1)

(* The counter /api/process stores after a generation. *)
DecrementedAttempts(user) == Max(0, user.freeAttempts - 1)

PackCredit_debit(user) == user.freeAttempts - PackAttempts

PackCredit_set(user) == PackAttempts

(* The counter /api/payment/verify stores for a pack. *)
PackCredit(user) == user.freeAttempts + PackAttempts

(* expiryDate.setDate(expiryDate.getDate() + 30) on new Date(). *)
ExpiryDate(today) == today + SubscriptionDays

(* plan === 'monthly' ? 19900 : 29900 *)
PlanAmount(plan) == IF plan = "monthly" THEN MonthlyAmount ELSE PackAmount

Init ==
  /\ envSecret \in EnvSecrets
  /\ usersData = <<>>
  /\ assignmentsData = <<>>
  /\ paymentsData = <<>>
  /\ currentUserId = 1
  /\ currentAssignmentId = 1
  /\ currentPaymentId = 1
  /\ sessions = [s \in Sessions |-> 0]
  /\ now = 0
  /\ reqs = [r \in Reqs |-> Idle]
  /\ resp = NoResp
  /\ ret = NoRet
  /\ ext = NoExtraction
  /\ tmpFiles = {}
  /\ nextUuid = 1

\* Time passes.
Tick ==
  /\ now < MaxClock
  /\ UNCHANGED <<ret, extractor, envSecret, store, sessions, reqs, resp>>
  /\ now' = now + 1

\* More than a subscription period passes.
Elapse(days) ==
  /\ now + days <= SubscriptionDays + MaxClock
  /\ UNCHANGED <<ret, extractor, envSecret, store, sessions, reqs, resp>>
  /\ now' = now + days

(* POST /api/auth/signup, up to the await of bcrypt.hash in createUser. *)
SignupStart(r, body) ==
  /\ Free(r)
  /\ currentUserId <= MaxUsers
  /\ UNCHANGED <<ret, extractor, envSecret, usersData, assignmentsData, paymentsData,
                 currentAssignmentId, currentPaymentId, sessions, now>>
  /\ IF ~ValidRegistration(body) THEN
       /\ resp' = Respond("signup", 400)
       /\ UNCHANGED <<reqs, currentUserId>>
     ELSE IF getUserByEmail(body.email) # Undefined THEN
       /\ resp' = Respond("signup", 409)
       /\ UNCHANGED <<reqs, currentUserId>>
     ELSE IF getUserByUsername(body.username) # Undefined THEN
       /\ resp' = Respond("signup", 409)
       /\ UNCHANGED <<reqs, currentUserId>>
     ELSE
       /\ reqs' = [reqs EXCEPT ![r] =
            [Idle EXCEPT !.kind = "signup", !.pc = "hash",
                         !.id = currentUserId, !.body = body]]
       /\ currentUserId' = currentUserId + 1
       /\ UNCHANGED resp

(* createUser after the hash, and the 201. *)
SignupFinish(r) ==
  /\ reqs[r].kind = "signup"
  /\ reqs[r].pc = "hash"
  /\ UNCHANGED <<ret, extractor, envSecret, assignmentsData, paymentsData, currentUserId,
                 currentAssignmentId, currentPaymentId, sessions, now>>
  /\ usersData' = MapSet(usersData, reqs[r].id, NewUser(reqs[r].id, reqs[r].body))
  /\ reqs' = [reqs EXCEPT ![r] = Idle]
  /\ resp' = Respond("signup", 201)

(* POST /api/auth/login, up to the await of bcrypt.compare. *)
LoginStart(r, s, body) ==
  /\ Free(r)
  /\ UNCHANGED <<ret, extractor, envSecret, store, sessions, now>>
  /\ IF ~ValidLogin(body) THEN
       /\ resp' = Respond("login", 400)
       /\ UNCHANGED reqs
     ELSE IF getUserByEmail(body.email) = Undefined THEN
       /\ resp' = Respond("login", 401)
       /\ UNCHANGED reqs
     ELSE
       /\ reqs' = [reqs EXCEPT ![r] =
            [Idle EXCEPT !.kind = "login", !.pc = "compare", !.sess = s,
                         !.user = LoginView(getUserByEmail(body.email)),
                         !.body = body]]
       /\ UNCHANGED resp

(* The rest of the login handler. *)
LoginFinish(r) ==
  /\ reqs[r].kind = "login"
  /\ reqs[r].pc = "compare"
  /\ UNCHANGED <<ret, extractor, envSecret, store, now>>
  /\ IF ~BcryptCompare(reqs[r].body.password, reqs[r].user.password) THEN
       /\ resp' = Respond("login", 401)
       /\ UNCHANGED sessions
     ELSE
       /\ sessions' = [sessions EXCEPT ![reqs[r].sess] = reqs[r].user.id]
       /\ resp' = Respond("login", 200)
  /\ reqs' = [reqs EXCEPT ![r] = Idle]

(* POST /api/auth/logout: req.session.destroy. *)
Logout(s) ==
  /\ UNCHANGED <<ret, extractor, envSecret, store, now, reqs>>
  /\ sessions' = [sessions EXCEPT ![s] = 0]
  /\ resp' = Respond("logout", 200)

(* POST /api/process, up to the await of aiService.processAssignment. *)
ProcessStart(r, s, text, fileUrl) ==
  /\ Free(r)
  /\ UNCHANGED <<ret, extractor, envSecret, store, sessions, now>>
  /\ IF ~Authenticated(s) THEN
       /\ resp' = Respond("process", 401)
       /\ UNCHANGED reqs
     ELSE IF text = "" THEN
       /\ resp' = Respond("process", 400)
       /\ UNCHANGED reqs
     ELSE IF getUser(sessions[s]) = Undefined THEN
       /\ resp' = Respond("process", 404)
       /\ UNCHANGED reqs
     ELSE IF QuotaExhausted(getUser(sessions[s])) THEN
       /\ resp' = Respond("process", 403)
       /\ UNCHANGED reqs
     ELSE
       /\ Len(assignmentsData) + Cardinality(Pending("process")) < MaxAssignments
       /\ reqs' = [reqs EXCEPT ![r] =
            [Idle EXCEPT !.kind = "process", !.pc = "ai", !.sess = s,
                         !.userId = sessions[s],
                         !.user = QuotaView(getUser(sessions[s])),
                         !.text = text, !.fileUrl = fileUrl]]
       /\ UNCHANGED resp

ProcessFinish_chargesFailure(r, solution) ==
  /\ reqs[r].kind = "process"
  /\ reqs[r].pc = "ai"
  /\ UNCHANGED <<ret, extractor, envSecret, sessions, now, paymentsData,
                 currentUserId, currentPaymentId>>
  /\ usersData' =
       IF reqs[r].user.subscriptionStatus = "free"
         THEN updateUser(reqs[r].userId,
                [freeAttempts |-> DecrementedAttempts(reqs[r].user)],
                {"freeAttempts"})
         ELSE usersData
  /\ IF solution = "throw" THEN
       /\ resp' = Respond("process", 500)
       /\ UNCHANGED <<assignmentsData, currentAssignmentId>>
     ELSE
       /\ assignmentsData' = createAssignment(
            [ userId |-> reqs[r].userId,
              fileName |-> IF reqs[r].fileUrl # "" THEN LastSegment(reqs[r].fileUrl)
                           ELSE "Text Input",
              fileUrl |-> reqs[r].fileUrl,
              extractedText |-> reqs[r].text,
              solution |-> solution,
              attemptCount |-> 1 ])
       /\ currentAssignmentId' = currentAssignmentId + 1
       /\ resp' = Respond("process", 200)
  /\ reqs' = [reqs EXCEPT ![r] = Idle]

(* The AI generator throws, or returns `solution` and the handler runs on *)
(* to its response.                                                       *)
ProcessFinish(r, solution) ==
  /\ reqs[r].kind = "process"
  /\ reqs[r].pc = "ai"
  /\ UNCHANGED <<ret, extractor, envSecret, sessions, now>>
  /\ IF solution = "throw" THEN
       /\ resp' = Respond("process", 500)
       /\ UNCHANGED store
     ELSE
       /\ assignmentsData' = createAssignment(
            [ userId |-> reqs[r].userId,
              fileName |-> IF reqs[r].fileUrl # "" THEN LastSegment(reqs[r].fileUrl)
                           ELSE "Text Input",
              fileUrl |-> reqs[r].fileUrl,
              extractedText |-> reqs[r].text,
              solution |-> solution,
              attemptCount |-> 1 ])
       /\ currentAssignmentId' = currentAssignmentId + 1
       /\ usersData' =
            IF reqs[r].user.subscriptionStatus = "free"
              THEN updateUser(reqs[r].userId,
                     [freeAttempts |-> DecrementedAttempts(reqs[r].user)],
                     {"freeAttempts"})
              ELSE usersData
       /\ resp' = Respond("process", 200)
       /\ UNCHANGED <<paymentsData, currentUserId, currentPaymentId>>
  /\ reqs' = [reqs EXCEPT ![r] = Idle]

(* POST /api/payment/initiate, up to the await of paymentService.createOrder. *)
InitiateStart(r, s, plan) ==
  /\ Free(r)
  /\ UNCHANGED <<ret, extractor, envSecret, store, sessions, now>>
  /\ IF ~Authenticated(s) THEN
       /\ resp' = Respond("initiate", 401)
       /\ UNCHANGED reqs
     ELSE IF plan \notin {"monthly", "pack"} THEN
       /\ resp' = Respond("initiate", 400)
       /\ UNCHANGED reqs
     ELSE IF getUser(sessions[s]) = Undefined THEN
       /\ resp' = Respond("initiate", 404)
       /\ UNCHANGED reqs
     ELSE
       /\ Len(paymentsData) + Cardinality(Pending("initiate")) < MaxPayments
       /\ reqs' = [reqs EXCEPT ![r] =
            [Idle EXCEPT !.kind = "initiate", !.pc = "order", !.sess = s,
                         !.userId = sessions[s], !.plan = plan,
                         !.amount = PlanAmount(plan)]]
       /\ UNCHANGED resp

(* createOrder resolves with the gateway's, or a synthesized, order id; the *)
(* handler stores the pending PaymentRecord and answers.                    *)
InitiateFinish(r, orderId) ==
  /\ reqs[r].kind = "initiate"
  /\ reqs[r].pc = "order"
  /\ UNCHANGED <<ret, extractor, envSecret, usersData, assignmentsData, currentUserId,
                 currentAssignmentId, sessions, now>>
  /\ paymentsData' = createPayment(
       [ userId |-> reqs[r].userId,
         amount |-> reqs[r].amount,
         orderId |-> orderId,
         status |-> "pending",
         planType |-> reqs[r].plan ])
  /\ currentPaymentId' = currentPaymentId + 1
  /\ reqs' = [reqs EXCEPT ![r] = Idle]
  /\ resp' = Respond("initiate", 200)

(* paymentsData once the verify handler is past updatePayment. *)
CompletedPayments(orderId, paymentId) ==
  updatePayment(getPaymentByOrderId(orderId).id,
    [status |-> "completed", paymentId |-> paymentId], {"status", "paymentId"})

CreditedUsers_fromPurchase(userId, payment) ==
  IF payment.planType = "monthly" THEN
    updateUser(userId,
      [ subscriptionStatus |-> "active",
        subscriptionExpiresAt |-> ExpiryDate(payment.timestamp) ],
      {"subscriptionStatus", "subscriptionExpiresAt"})
  ELSE IF payment.planType = "pack" THEN
    updateUser(userId, [freeAttempts |-> PackCredit(getUser(userId))],
      {"freeAttempts"})
  ELSE usersData

(* usersData once the verify handler has applied the plan of `payment`. *)
CreditedUsers(userId, payment) ==
  IF payment.planType = "monthly" THEN
    updateUser(userId,
      [subscriptionStatus |-> "active", subscriptionExpiresAt |-> ExpiryDate(now)],
      {"subscriptionStatus", "subscriptionExpiresAt"})
  ELSE IF payment.planType = "pack" THEN
    updateUser(userId, [freeAttempts |-> PackCredit(getUser(userId))],
      {"freeAttempts"})
  ELSE usersData

(* POST /api/payment/verify: the handler awaits the store only. *)
PaymentVerify(s, orderId, paymentId, signature) ==
  /\ UNCHANGED <<ret, extractor, envSecret, assignmentsData, currentUserId, currentAssignmentId,
                 currentPaymentId, sessions, now, reqs>>
  /\ IF ~Authenticated(s) THEN
       /\ resp' = Respond("verify", 401)
       /\ UNCHANGED <<usersData, paymentsData>>
     ELSE IF ~verifyPayment(orderId, paymentId, signature) THEN
       /\ resp' = Respond("verify", 400)
       /\ UNCHANGED <<usersData, paymentsData>>
     ELSE IF getPaymentByOrderId(orderId) = Undefined THEN
       /\ resp' = Respond("verify", 404)
       /\ UNCHANGED <<usersData, paymentsData>>
     ELSE IF getUser(sessions[s]) = Undefined THEN
       /\ paymentsData' = CompletedPayments(orderId, paymentId)
       /\ resp' = Respond("verify", 404)
       /\ UNCHANGED usersData
     ELSE
       /\ getPaymentByOrderId(orderId).planType = "pack" =>
            PackCredit(getUser(sessions[s]))
              <= InitialFreeAttempts + MaxCredits * PackAttempts
       /\ paymentsData' = CompletedPayments(orderId, paymentId)
       /\ usersData' = CreditedUsers(sessions[s], getPaymentByOrderId(orderId))
       /\ resp' = Respond("verify", 200)

(* One account, whose requests overlap: up to two handlers are suspended *)
(* at a time (registrations one at a time).                              *)
Next ==
  \/ \E body \in OneSignupBody : SignupStart(1, body)
  \/ \E r \in Reqs : SignupFinish(r)
  \/ \E r \in Reqs, s \in Sessions, body \in LoginBodies : LoginStart(r, s, body)
  \/ \E r \in Reqs : LoginFinish(r)
  \/ \E s \in Sessions : Logout(s)
  \/ \E r \in Reqs, s \in Sessions, text \in Texts, fileUrl \in FileUrls :
       ProcessStart(r, s, text, fileUrl)
  \/ \E r \in Reqs, solution \in Solutions \cup {"throw"} : ProcessFinish(r, solution)
  \/ \E r \in Reqs, s \in Sessions, plan \in Plans : InitiateStart(r, s, plan)
  \/ \E r \in Reqs, orderId \in GatewayOrderIds : InitiateFinish(r, orderId)
  \/ \E s \in Sessions, orderId \in OrderIds, paymentId \in PaymentIds,
        signature \in Signatures :
       PaymentVerify(s, orderId, paymentId, signature)

Spec == Init /\ [][Next]_vars

(* Two accounts and a running clock, purchases only (registrations one at *)
(* a time).                                                              *)
NextPay ==
  \/ Tick
  \/ \E body \in SignupBodies : SignupStart(1, body)
  \/ \E r \in Reqs : SignupFinish(r)
  \/ \E r \in Reqs, s \in Sessions, body \in LoginBodies : LoginStart(r, s, body)
  \/ \E r \in Reqs : LoginFinish(r)
  \/ \E s \in Sessions : Logout(s)
  \/ \E r \in Reqs, s \in Sessions, plan \in Plans : InitiateStart(r, s, plan)
  \/ \E r \in Reqs, orderId \in GatewayOrderIds : InitiateFinish(r, orderId)
  \/ \E s \in Sessions, orderId \in OrderIds, paymentId \in PaymentIds,
        signature \in Signatures :
       PaymentVerify(s, orderId, paymentId, signature)

SpecPay == Init /\ [][NextPay]_vars

(* ---------------------------- FileProcessor ---------------------------- *)
\* String.prototype.trim on the texts the libraries return.
Trim(s) ==
  CASE s = " " -> ""
    [] s = " Essay topic " -> "Essay topic"
    [] OTHER -> s

\* path.join(os.tmpdir(), `${uuidv4()}.pdf`) and the same with .png.
TempFile(n, suffix) == [name |-> n, suffix |-> suffix]

PdfImageBasedNotice ==
  "The PDF appears to be image-based. Please provide a text version or summary of your assignment question."

NoTextNotice ==
  "No text could be extracted from the image. Please provide a clearer image or manually enter the text."

\* An extraction is between its call and its return.
Running == ext.pc \notin {"idle", "returned", "failed"}

\* extractText returns `text`.
ExtractReturned(e, text) == [e EXCEPT !.pc = "returned", !.out = text, !.error = ""]

\* The catch of extractText: whatever was thrown inside, it throws this.
ExtractFailed(e) ==
  [e EXCEPT !.pc = "failed", !.out = "", !.error = "Failed to extract text from file"]

\* extractFromPdf is about to return `out`, or to throw `error`, and enters
\* its finally block.
PdfFinally(e, out, error) ==
  [e EXCEPT !.pc = "pdf_finally", !.out = out, !.error = error]

\* extractFromImage up to its await of writeFile; `why` tells which call of
\* it this is: the image strategy ("direct"), the fallback for a short PDF
\* text ("short") or the fallback in the catch of extractFromPdf ("failed").
BeginOcr(e, why) ==
  /\ ext' = [e EXCEPT !.pc = "ocr_write", !.ocr = why, !.pngTemp = nextUuid]
  /\ nextUuid' = nextUuid + 1

OcrThrew_alwaysFails(e) ==
  CASE e.ocr = "short" -> PdfFinally(e, "", "Failed to extract text from PDF")
    [] e.ocr = "failed" -> PdfFinally(e, "", "Failed to extract text from PDF")
    [] OTHER -> ExtractFailed(e)

\* extractFromImage threw: where its caller goes.
OcrThrew(e) ==
  CASE e.ocr = "short" -> PdfFinally(e, PdfImageBasedNotice, "")
    [] e.ocr = "failed" -> PdfFinally(e, "", "Failed to extract text from PDF")
    [] OTHER -> ExtractFailed(e)

\* extractFromImage returned for recognised text `text`.
OcrGave(e, text) ==
  IF e.ocr = "direct"
    THEN ExtractReturned(e, IF Trim(text) = "" THEN NoTextNotice ELSE text)
    ELSE PdfFinally(e, IF Trim(text) = "" THEN NoTextNotice ELSE text, "")

\* extractText(buffer, mimeType) up to its first await of a library or of
\* the file system; `parsed` is what XLSX.read makes of the buffer.
Dispatch(owner, mimeType, parsed) ==
  LET e == [NoExtraction EXCEPT !.owner = owner, !.mimeType = mimeType] IN
  CASE mimeType = "application/pdf" ->
         /\ ext' = [e EXCEPT !.pc = "pdf_write", !.pdfTemp = nextUuid]
         /\ nextUuid' = nextUuid + 1
         /\ UNCHANGED tmpFiles
    [] mimeType = "application/vnd.openxmlformats-officedocument.wordprocessingml.document" ->
         /\ ext' = [e EXCEPT !.pc = "docx_parse"]
         /\ UNCHANGED <<tmpFiles, nextUuid>>
    [] mimeType = "application/vnd.openxmlformats-officedocument.spreadsheetml.sheet" ->
         /\ ext' = IF parsed = "throw" THEN ExtractFailed(e)
                   ELSE ExtractReturned(e, Trim(parsed))
         /\ UNCHANGED <<tmpFiles, nextUuid>>
    [] mimeType \in {"image/jpeg", "image/png"} ->
         /\ BeginOcr(e, "direct")
         /\ UNCHANGED tmpFiles
    [] OTHER ->
         /\ ext' = ExtractFailed(e)
         /\ UNCHANGED <<tmpFiles, nextUuid>>

(* extractText called on its own. *)
ExtractText(mimeType, parsed) ==
  /\ ~Running
  /\ nextUuid + 1 <= MaxUuids
  /\ UNCHANGED <<ret, envSecret, store, sessions, now, reqs, resp>>
  /\ Dispatch(0, mimeType, parsed)

(* writeFile(tempFilePath, buffer) of extractFromPdf settles; a failed write *)
(* may have left the file behind.                                           *)
PdfWrite(ok, left) ==
  /\ ext.pc = "pdf_write"
  /\ UNCHANGED <<ret, envSecret, store, sessions, now, reqs, resp>>
  /\ IF ok THEN
       /\ tmpFiles' = tmpFiles \cup {TempFile(ext.pdfTemp, "pdf")}
       /\ ext' = [ext EXCEPT !.pc = "pdf_extract"]
       /\ UNCHANGED nextUuid
     ELSE
       /\ tmpFiles' = IF left THEN tmpFiles \cup {TempFile(ext.pdfTemp, "pdf")}
                       ELSE tmpFiles
       /\ BeginOcr(ext, "failed")

(* pdfExtract.extract settles: it throws, or the text of the pages, joined *)
(* and normalised, is `outcome`.                                          *)
PdfExtract(outcome) ==
  /\ ext.pc = "pdf_extract"
  /\ UNCHANGED <<ret, envSecret, store, sessions, now, reqs, resp, tmpFiles>>
  /\ IF outcome = "throw" THEN BeginOcr(ext, "failed")
     ELSE IF outcome = "" \/ Len(Trim(outcome)) < MinPdfTextLen
       THEN BeginOcr([ext EXCEPT !.text = outcome], "short")
     ELSE /\ ext' = PdfFinally([ext EXCEPT !.text = outcome], outcome, "")
          /\ UNCHANGED nextUuid

(* The finally block of extractFromPdf, and what extractText does with the *)
(* outcome.                                                               *)
PdfCleanup ==
  /\ ext.pc = "pdf_finally"
  /\ UNCHANGED <<ret, envSecret, store, sessions, now, reqs, resp, nextUuid>>
  /\ tmpFiles' = tmpFiles \ {TempFile(ext.pdfTemp, "pdf")}
  /\ ext' = IF ext.error # "" THEN ExtractFailed(ext)
            ELSE ExtractReturned(ext, ext.out)

(* The callback of docx.parseDocx. *)
DocxParse(outcome) ==
  /\ ext.pc = "docx_parse"
  /\ UNCHANGED <<ret, envSecret, store, sessions, now, reqs, resp, tmpFiles,
                 nextUuid>>
  /\ ext' = IF outcome = "throw" THEN ExtractFailed(ext)
            ELSE ExtractReturned(ext, Trim(outcome))

(* writeFile(tempFilePath, buffer) of extractFromImage settles. *)
OcrWrite(ok, left) ==
  /\ ext.pc = "ocr_write"
  /\ UNCHANGED <<ret, envSecret, store, sessions, now, reqs, resp, nextUuid>>
  /\ IF ok THEN
       /\ tmpFiles' = tmpFiles \cup {TempFile(ext.pngTemp, "png")}
       /\ ext' = [ext EXCEPT !.pc = "ocr_worker"]
     ELSE
       /\ tmpFiles' = IF left THEN tmpFiles \cup {TempFile(ext.pngTemp, "png")}
                       ELSE tmpFiles
       /\ ext' = OcrThrew(ext)

(* createWorker() settles. *)
OcrWorker(ok) ==
  /\ ext.pc = "ocr_worker"
  /\ UNCHANGED <<ret, envSecret, store, sessions, now, reqs, resp, tmpFiles,
                 nextUuid>>
  /\ ext' = IF ok THEN [ext EXCEPT !.pc = "ocr_init"] ELSE OcrThrew(ext)

(* worker.loadLanguage('eng') and worker.initialize('eng') settle. *)
OcrInit(ok) ==
  /\ ext.pc = "ocr_init"
  /\ UNCHANGED <<ret, envSecret, store, sessions, now, reqs, resp, tmpFiles,
                 nextUuid>>
  /\ ext' = IF ok THEN [ext EXCEPT !.pc = "ocr_recognize"] ELSE OcrThrew(ext)

(* worker.recognize(tempFilePath) settles. *)
OcrRecognize(outcome) ==
  /\ ext.pc = "ocr_recognize"
  /\ UNCHANGED <<ret, envSecret, store, sessions, now, reqs, resp, tmpFiles,
                 nextUuid>>
  /\ ext' = IF outcome = "throw" THEN OcrThrew(ext)
            ELSE [ext EXCEPT !.pc = "ocr_terminate", !.out = outcome]

(* worker.terminate() settles. *)
OcrTerminate(ok) ==
  /\ ext.pc = "ocr_terminate"
  /\ UNCHANGED <<ret, envSecret, store, sessions, now, reqs, resp, tmpFiles,
                 nextUuid>>
  /\ ext' = IF ok THEN [ext EXCEPT !.pc = "ocr_unlink"] ELSE OcrThrew(ext)

(* unlinkAsync(tempFilePath) of extractFromImage settles, and the text is *)
(* returned.                                                              *)
OcrUnlink ==
  /\ ext.pc = "ocr_unlink"
  /\ UNCHANGED <<ret, envSecret, store, sessions, now, reqs, resp, nextUuid>>
  /\ tmpFiles' = tmpFiles \ {TempFile(ext.pngTemp, "png")}
  /\ ext' = OcrGave(ext, ext.out)

\* The steps of an extraction after its dispatch.
ExtractionStep ==
  \/ \E ok \in BOOLEAN, left \in BOOLEAN : PdfWrite(ok, left)
  \/ \E outcome \in PdfTexts \cup {"throw"} : PdfExtract(outcome)
  \/ PdfCleanup
  \/ \E outcome \in DocxTexts \cup {"throw"} : DocxParse(outcome)
  \/ \E ok \in BOOLEAN, left \in BOOLEAN : OcrWrite(ok, left)
  \/ \E ok \in BOOLEAN : OcrWorker(ok)
  \/ \E ok \in BOOLEAN : OcrInit(ok)
  \/ \E outcome \in OcrTexts \cup {"throw"} : OcrRecognize(outcome)
  \/ \E ok \in BOOLEAN : OcrTerminate(ok)
  \/ OcrUnlink

(* The extractor alone: one extraction after another. *)
NextExtract ==
  \/ \E mimeType \in MimeTypes, parsed \in SheetTexts \cup {"throw"} :
       ExtractText(mimeType, parsed)
  \/ ExtractionStep

SpecExtract == Init /\ [][NextExtract]_vars

(* ------------------- the routes that use the extractor ----------------- *)
(* GET /api/user. *)
GetUserInfo(s) ==
  /\ UNCHANGED <<ret, extractor, envSecret, store, sessions, now, reqs>>
  /\ resp' = IF ~Authenticated(s) THEN Respond("user", 401)
             ELSE IF getUser(sessions[s]) = Undefined THEN Respond("user", 404)
             ELSE Respond("user", 200)

(* POST /api/upload, up to the await of supabaseService.uploadFile in *)
(* processFile.                                                       *)
UploadStart(r, s, file) ==
  /\ Free(r)
  /\ UNCHANGED <<ret, extractor, envSecret, store, sessions, now>>
  /\ IF ~Authenticated(s) THEN
       /\ resp' = Respond("upload", 401)
       /\ UNCHANGED reqs
     ELSE IF file = NoFile THEN
       /\ resp' = Respond("upload", 400)
       /\ UNCHANGED reqs
     ELSE
       /\ reqs' = [reqs EXCEPT ![r] =
            [Idle EXCEPT !.kind = "upload", !.pc = "put", !.sess = s,
                         !.userId = sessions[s], !.body = file]]
       /\ UNCHANGED resp

(* uploadFile settles: it throws and processFile fails, or it gives the *)
(* public url and processFile calls extractText.                        *)
UploadStored(r, fileUrl, parsed) ==
  /\ reqs[r].kind = "upload"
  /\ reqs[r].pc = "put"
  /\ UNCHANGED <<ret, envSecret, store, sessions, now>>
  /\ IF fileUrl = "throw" THEN
       /\ resp' = Respond("upload", 500)
       /\ reqs' = [reqs EXCEPT ![r] = Idle]
       /\ UNCHANGED extractor
     ELSE
       /\ ~Running
       /\ nextUuid + 1 <= MaxUuids
       /\ reqs' = [reqs EXCEPT ![r].pc = "extract", ![r].fileUrl = fileUrl]
       /\ Dispatch(r, reqs[r].body.mimetype, parsed)
       /\ UNCHANGED resp

(* extractText has returned or thrown: the rest of processFile and of the *)
(* upload handler.                                                        *)
UploadFinish(r) ==
  /\ reqs[r].kind = "upload"
  /\ reqs[r].pc = "extract"
  /\ ext.owner = r
  /\ ~Running
  /\ UNCHANGED <<ret, envSecret, store, sessions, now, tmpFiles, nextUuid>>
  /\ resp' = Respond("upload", IF ext.pc = "returned" THEN 200 ELSE 500)
  /\ reqs' = [reqs EXCEPT ![r] = Idle]
  /\ ext' = NoExtraction

(* POST /api/generate-pdf, up to the await of pdfGenerator.generatePDF. *)
GeneratePdfStart(r, s, solution) ==
  /\ Free(r)
  /\ UNCHANGED <<ret, extractor, envSecret, store, sessions, now>>
  /\ IF ~Authenticated(s) THEN
       /\ resp' = Respond("generate-pdf", 401)
       /\ UNCHANGED reqs
     ELSE IF solution = "" THEN
       /\ resp' = Respond("generate-pdf", 400)
       /\ UNCHANGED reqs
     ELSE
       /\ reqs' = [reqs EXCEPT ![r] =
            [Idle EXCEPT !.kind = "generate-pdf", !.pc = "render", !.sess = s,
                         !.userId = sessions[s], !.text = solution]]
       /\ UNCHANGED resp

(* The PDF renderer throws, or returns the url of the document. *)
GeneratePdfFinish(r, pdfUrl) ==
  /\ reqs[r].kind = "generate-pdf"
  /\ reqs[r].pc = "render"
  /\ UNCHANGED <<ret, extractor, envSecret, store, sessions, now>>
  /\ resp' = Respond("generate-pdf", IF pdfUrl = "throw" THEN 500 ELSE 200)
  /\ reqs' = [reqs EXCEPT ![r] = Idle]

(* GET /api/assignments. *)
GetAssignments(s) ==
  /\ UNCHANGED <<ret, extractor, envSecret, store, sessions, now, reqs>>
  /\ resp' = IF ~Authenticated(s) THEN Respond("assignments", 401)
             ELSE [ kind |-> "assignments", status |-> 200,
                    body |-> getAssignmentHistory(sessions[s]) ]

(* ----------------- MemStorage methods called directly ------------------ *)
Returned(op, arg, value) == [op |-> op, arg |-> arg, value |-> value]

\* The records stored and the createUser calls that have taken an id.
StoredRecords ==
  Len(usersData) + Len(assignmentsData) + Len(paymentsData)
    + Cardinality({r \in Reqs : reqs[r].pc # "idle"})

CreateUserBegin_idNotAdvanced(r, insertUser) ==
  /\ Free(r)
  /\ StoredRecords < MaxRecords
  /\ UNCHANGED <<ret, extractor, envSecret, usersData, assignmentsData,
                 paymentsData, currentAssignmentId, currentPaymentId, sessions,
                 now, resp, currentUserId>>
  /\ reqs' = [reqs EXCEPT ![r] =
       [Idle EXCEPT !.kind = "createUser", !.pc = "hash",
                    !.id = currentUserId, !.body = insertUser]]

(* createUser(insertUser), up to the await of bcrypt.hash. *)
CreateUserBegin(r, insertUser) ==
  /\ Free(r)
  /\ StoredRecords < MaxRecords
  /\ UNCHANGED <<ret, extractor, envSecret, usersData, assignmentsData,
                 paymentsData, currentAssignmentId, currentPaymentId, sessions,
                 now, resp>>
  /\ reqs' = [reqs EXCEPT ![r] =
       [Idle EXCEPT !.kind = "createUser", !.pc = "hash",
                    !.id = currentUserId, !.body = insertUser]]
  /\ currentUserId' = currentUserId + 1

(* createUser after the hash. *)
CreateUserEnd(r) ==
  /\ reqs[r].kind = "createUser"
  /\ reqs[r].pc = "hash"
  /\ UNCHANGED <<extractor, envSecret, assignmentsData, paymentsData,
                 currentUserId, currentAssignmentId, currentPaymentId, sessions,
                 now, resp>>
  /\ usersData' = MapSet(usersData, reqs[r].id, NewUser(reqs[r].id, reqs[r].body))
  /\ ret' = Returned("createUser", reqs[r].body, NewUser(reqs[r].id, reqs[r].body))
  /\ reqs' = [reqs EXCEPT ![r] = Idle]

GetUser(id) ==
  /\ UNCHANGED <<extractor, envSecret, store, sessions, now, reqs, resp>>
  /\ ret' = Returned("getUser", [id |-> id], getUser(id))

UpdateUser(id, updates) ==
  /\ UNCHANGED <<extractor, envSecret, assignmentsData, paymentsData,
                 currentUserId, currentAssignmentId, currentPaymentId, sessions,
                 now, reqs, resp>>
  /\ usersData' = updateUser(id, updates, DOMAIN updates)
  /\ ret' = Returned("updateUser", [id |-> id, updates |-> updates],
              IF getUser(id) = Undefined THEN Undefined
              ELSE Merge(getUser(id), updates, DOMAIN updates))

CreateAssignment(assignment) ==
  /\ StoredRecords < MaxRecords
  /\ UNCHANGED <<extractor, envSecret, usersData, paymentsData, currentUserId,
                 currentPaymentId, sessions, now, reqs, resp>>
  /\ assignmentsData' = createAssignment(assignment)
  /\ currentAssignmentId' = currentAssignmentId + 1
  /\ ret' = Returned("createAssignment", assignment,
              MapGet(createAssignment(assignment), currentAssignmentId))

GetAssignment(id) ==
  /\ UNCHANGED <<extractor, envSecret, store, sessions, now, reqs, resp>>
  /\ ret' = Returned("getAssignment", [id |-> id], getAssignment(id))

UpdateAssignment(id, updates) ==
  /\ UNCHANGED <<extractor, envSecret, usersData, paymentsData, currentUserId,
                 currentAssignmentId, currentPaymentId, sessions, now, reqs,
                 resp>>
  /\ assignmentsData' = updateAssignment(id, updates, DOMAIN updates)
  /\ ret' = Returned("updateAssignment", [id |-> id, updates |-> updates],
              IF getAssignment(id) = Undefined THEN Undefined
              ELSE Merge(getAssignment(id), updates, DOMAIN updates))

CreatePayment(payment) ==
  /\ StoredRecords < MaxRecords
  /\ UNCHANGED <<extractor, envSecret, usersData, assignmentsData,
                 currentUserId, currentAssignmentId, sessions, now, reqs, resp>>
  /\ paymentsData' = createPayment(payment)
  /\ currentPaymentId' = currentPaymentId + 1
  /\ ret' = Returned("createPayment", payment,
              MapGet(createPayment(payment), currentPaymentId))

GetPaymentByOrderId(orderId) ==
  /\ UNCHANGED <<extractor, envSecret, store, sessions, now, reqs, resp>>
  /\ ret' = Returned("getPaymentByOrderId", [orderId |-> orderId],
              getPaymentByOrderId(orderId))

UpdatePayment(id, updates) ==
  /\ UNCHANGED <<extractor, envSecret, usersData, assignmentsData,
                 currentUserId, currentAssignmentId, currentPaymentId, sessions,
                 now, reqs, resp>>
  /\ paymentsData' = updatePayment(id, updates, DOMAIN updates)
  /\ ret' = Returned("updatePayment", [id |-> id, updates |-> updates],
              IF MapGet(paymentsData, id) = Undefined THEN Undefined
              ELSE Merge(MapGet(paymentsData, id), updates, DOMAIN updates))

(* The store alone: its methods called in any order, by any caller. *)
NextStore ==
  \/ Tick
  \/ \E r \in Reqs, insertUser \in InsertUsers : CreateUserBegin(r, insertUser)
  \/ \E r \in Reqs : CreateUserEnd(r)
  \/ \E id \in RecordIds : GetUser(id)
  \/ \E id \in RecordIds, updates \in UserUpdates : UpdateUser(id, updates)
  \/ \E assignment \in InsertAssignments : CreateAssignment(assignment)
  \/ \E id \in RecordIds : GetAssignment(id)
  \/ \E id \in RecordIds, updates \in AssignmentUpdates :
       UpdateAssignment(id, updates)
  \/ \E payment \in InsertPayments : CreatePayment(payment)
  \/ \E orderId \in OrderIds : GetPaymentByOrderId(orderId)
  \/ \E id \in RecordIds, updates \in PaymentUpdates : UpdatePayment(id, updates)

SpecStore == Init /\ [][NextStore]_vars

(* One account and its purchases; a verify request may lack *)
(* razorpay_payment_id.                                      *)
NextOrders ==
  \/ \E body \in OneSignupBody : SignupStart(1, body)
  \/ \E r \in Reqs : SignupFinish(r)
  \/ \E r \in Reqs, s \in Sessions, body \in LoginBodies : LoginStart(r, s, body)
  \/ \E r \in Reqs : LoginFinish(r)
  \/ \E s \in Sessions : Logout(s)
  \/ \E r \in Reqs, s \in Sessions, plan \in Plans : InitiateStart(r, s, plan)
  \/ \E r \in Reqs, orderId \in GatewayOrderIds : InitiateFinish(r, orderId)
  \/ \E s \in Sessions, orderId \in OrderIds, paymentId \in BodyPaymentIds,
        signature \in Signatures :
       PaymentVerify(s, orderId, paymentId, signature)

SpecOrders == Init /\ [][NextOrders]_vars

(* Every route, for one account and one session: the requests that need *)
(* a session come one after another, a login may overlap them; the files *)
(* uploaded are Word documents and plain text.                           *)
NextSession ==
  \/ \E body \in OneSignupBody : SignupStart(1, body)
  \/ \E r \in Reqs : SignupFinish(r)
  \/ \E r \in Reqs, s \in Sessions, body \in LoginBodies : LoginStart(r, s, body)
  \/ \E r \in Reqs : LoginFinish(r)
  \/ \E s \in Sessions : Logout(s)
  \/ \E s \in Sessions : GetUserInfo(s)
  \/ \E s \in Sessions, file \in Files : UploadStart(1, s, file)
  \/ \E r \in Reqs, fileUrl \in FileUrls \cup {"throw"},
        parsed \in SheetTexts \cup {"throw"} :
       UploadStored(r, fileUrl, parsed)
  \/ \E outcome \in DocxTexts \cup {"throw"} : DocxParse(outcome)
  \/ \E r \in Reqs : UploadFinish(r)
  \/ \E s \in Sessions, text \in Texts, fileUrl \in FileUrls :
       ProcessStart(1, s, text, fileUrl)
  \/ \E r \in Reqs, solution \in Solutions \cup {"throw"} : ProcessFinish(r, solution)
  \/ \E s \in Sessions, solution \in Solutions \cup {""} :
       GeneratePdfStart(1, s, solution)
  \/ \E r \in Reqs, pdfUrl \in PdfUrls \cup {"throw"} : GeneratePdfFinish(r, pdfUrl)
  \/ \E s \in Sessions : GetAssignments(s)
  \/ \E s \in Sessions, plan \in Plans : InitiateStart(1, s, plan)
  \/ \E r \in Reqs, orderId \in GatewayOrderIds : InitiateFinish(r, orderId)
  \/ \E s \in Sessions, orderId \in OrderIds, paymentId \in PaymentIds,
        signature \in Signatures :
       PaymentVerify(s, orderId, paymentId, signature)

SpecSession == Init /\ [][NextSession]_vars

(* Two accounts, one after the other in the same browser session, their *)
(* generations and their histories, under a running clock.               *)
NextHistory ==
  \/ Tick
  \/ \E body \in SignupBodies : SignupStart(1, body)
  \/ \E r \in Reqs : SignupFinish(r)
  \/ \E s \in Sessions, body \in LoginBodies : LoginStart(1, s, body)
  \/ \E r \in Reqs : LoginFinish(r)
  \/ \E r \in Reqs, s \in Sessions, text \in Texts, fileUrl \in FileUrls :
       ProcessStart(r, s, text, fileUrl)
  \/ \E r \in Reqs, solution \in Solutions \cup {"throw"} : ProcessFinish(r, solution)
  \/ \E s \in Sessions : GetAssignments(s)

SpecHistory == Init /\ [][NextHistory]_vars

(* Registrations that overlap at the await of the password hash, and the *)
(* logins that fetch an account by its email.                             *)
NextRace ==
  \/ \E r \in Reqs, body \in SignupCaseBodies : SignupStart(r, body)
  \/ \E r \in Reqs : SignupFinish(r)
  \/ \E r \in Reqs, s \in Sessions, body \in LoginBodies : LoginStart(r, s, body)
  \/ \E r \in Reqs : LoginFinish(r)
  \/ \E s \in Sessions : Logout(s)

SpecRace == Init /\ [][NextRace]_vars

(* One account over more than a subscription period: its generations and *)
(* its purchases, one request at a time.                                  *)
NextExpiry ==
  \/ \E days \in {SubscriptionDays + 1} : Elapse(days)
  \/ \E body \in OneSignupBody : SignupStart(1, body)
  \/ \E r \in Reqs : SignupFinish(r)
  \/ \E s \in Sessions, body \in LoginBodies : LoginStart(1, s, body)
  \/ \E r \in Reqs : LoginFinish(r)
  \/ \E s \in Sessions, text \in Texts, fileUrl \in FileUrls :
       ProcessStart(1, s, text, fileUrl)
  \/ \E r \in Reqs, solution \in Solutions \cup {"throw"} : ProcessFinish(r, solution)
  \/ \E s \in Sessions, plan \in Plans : InitiateStart(1, s, plan)
  \/ \E r \in Reqs, orderId \in GatewayOrderIds : InitiateFinish(r, orderId)
  \/ \E s \in Sessions, orderId \in OrderIds, paymentId \in PaymentIds,
        signature \in Signatures :
       PaymentVerify(s, orderId, paymentId, signature)

SpecExpiry == Init /\ [][NextExpiry]_vars

(* Registrations whose names and addresses differ in letter case only, *)
(* handled one after another, and logins.                              *)
NextSignup ==
  \/ \E body \in SignupCaseBodies : SignupStart(1, body)
  \/ \E r \in Reqs : SignupFinish(r)
  \/ \E r \in Reqs, s \in Sessions, body \in LoginBodies : LoginStart(r, s, body)
  \/ \E r \in Reqs : LoginFinish(r)
  \/ \E s \in Sessions : Logout(s)

SpecSignup == Init /\ [][NextSignup]_vars

(* ------------------------------ claims --------------------------------- *)
Users == {usersData[i] : i \in 1..Len(usersData)}
Payments == {paymentsData[i] : i \in 1..Len(paymentsData)}
IsFree(user) == user.subscriptionStatus = "free"

\* A step that is the first part of a /api/process request of an existing
\* account in session s.
ProcessBy(r, s, text, fileUrl) ==
  /\ reqs[r].pc = "idle"
  /\ Authenticated(s)
  /\ getUser(sessions[s]) # Undefined
  /\ ProcessStart(r, s, text, fileUrl)

\* The step starts no AI call.
NoAiCall == \A q \in Reqs : reqs'[q].pc = "ai" => reqs[q] = reqs'[q]

\* C1 as stated: a process request of a free account with no attempts left
\* is answered 403, starts no AI call, creates no SolveRecord and leaves
\* the account as it was.
C1_Exhausted403 ==
  [][\A r \in Reqs, s \in Sessions, text \in Texts, fileUrl \in FileUrls :
       ( /\ ProcessBy(r, s, text, fileUrl)
         /\ IsFree(getUser(sessions[s]))
         /\ getUser(sessions[s]).freeAttempts = 0 )
       => /\ resp' = Respond("process", 403)
          /\ NoAiCall
          /\ UNCHANGED store]_vars

\* C1 amended: such a request is answered 403 when it carries a text and
\* 400 when it carries none; either way it starts no AI call, creates no
\* SolveRecord and leaves the account as it was.
C1_ExhaustedRejected ==
  [][\A r \in Reqs, s \in Sessions, text \in Texts, fileUrl \in FileUrls :
       ( /\ ProcessBy(r, s, text, fileUrl)
         /\ IsFree(getUser(sessions[s]))
         /\ getUser(sessions[s]).freeAttempts = 0 )
       => /\ resp' = Respond("process", IF text = "" THEN 400 ELSE 403)
          /\ NoAiCall
          /\ UNCHANGED store]_vars

C1_Witness ==
  /\ resp = Respond("process", 403)
  /\ \E u \in Users : IsFree(u) /\ u.freeAttempts = 0

\* C2: every account's freeAttempts is at least 0 in every reachable state.
C2_NonNegative == \A u \in Users : u.freeAttempts >= 0

C2_Witness ==
  /\ \E u \in Users : u.freeAttempts = 0
  /\ \E p \in Payments : p.status = "completed"
  /\ Len(assignmentsData) >= InitialFreeAttempts

\* A step in which a verify request credits a pack to the account at
\* position i of usersData.
PackVerified(i) ==
  \E s \in Sessions, orderId \in OrderIds, paymentId \in PaymentIds,
     signature \in Signatures :
    /\ resp' = Respond("verify", 200)
    /\ sessions[s] = usersData[i].id
    /\ PaymentVerify(s, orderId, paymentId, signature)
    /\ getPaymentByOrderId(orderId).planType = "pack"

\* C3 as stated: over any step that an account begins and ends free, its
\* freeAttempts does not grow.
C3_NonIncreasing ==
  [][\A i \in 1..Len(usersData) :
       (IsFree(usersData[i]) /\ IsFree(usersData'[i]))
       => usersData'[i].freeAttempts <= usersData[i].freeAttempts]_vars

\* A step in which a process request ends with 200 and stores, for the
\* account at position i of usersData, the counter it read when it came in
\* less one, although the stored counter has since dropped below that.
StaleDecrement(i) ==
  \E r \in Reqs, solution \in Solutions :
    /\ ProcessFinish(r, solution)
    /\ reqs[r].userId = usersData[i].id
    /\ IsFree(reqs[r].user)
    /\ reqs[r].user.freeAttempts - 1 > usersData[i].freeAttempts
    /\ usersData'[i].freeAttempts = reqs[r].user.freeAttempts - 1

\* C3 amended: over any step that an account begins and ends free, its
\* freeAttempts does not grow, with two exceptions: a verified pack payment
\* adds 20, and a process request that read the counter as v before another
\* request of the account lowered it below v - 1 stores v - 1.
C3_NonIncreasingButPack ==
  [][\A i \in 1..Len(usersData) :
       (IsFree(usersData[i]) /\ IsFree(usersData'[i]))
       => \/ usersData'[i].freeAttempts <= usersData[i].freeAttempts
          \/ /\ PackVerified(i)
             /\ usersData'[i].freeAttempts
                  = usersData[i].freeAttempts + PackAttempts
          \/ StaleDecrement(i)]_vars

C3_Witness ==
  \E u \in Users :
    /\ IsFree(u)
    /\ u.freeAttempts = InitialFreeAttempts + PackAttempts - 1

\* C4: a process request that ends with 200 stores max(0, v - 1) as the
\* account's freeAttempts, v being the counter the request read when it
\* came in, if the account was free then, and changes nothing else of the
\* account; if the account was not free it writes no account at all.
C4_DecrementIffFree ==
  [][/\ \A r \in Reqs, s \in Sessions, text \in Texts, fileUrl \in FileUrls :
          (ProcessBy(r, s, text, fileUrl) /\ reqs'[r].pc = "ai")
          => /\ reqs'[r].userId = sessions[s]
             /\ reqs'[r].user.freeAttempts = getUser(sessions[s]).freeAttempts
             /\ reqs'[r].user.subscriptionStatus
                  = getUser(sessions[s]).subscriptionStatus
     /\ \A r \in Reqs, solution \in Solutions :
          (ProcessFinish(r, solution) /\ resp' = Respond("process", 200))
          => IF IsFree(reqs[r].user)
               THEN usersData' = MapSet(usersData, reqs[r].userId,
                      [getUser(reqs[r].userId) EXCEPT
                         !.freeAttempts = Max(0, reqs[r].user.freeAttempts - 1)])
               ELSE usersData' = usersData]_vars

C4_Witness ==
  /\ resp = Respond("process", 200)
  /\ \E u \in Users : IsFree(u) /\ u.freeAttempts = 0

IsActive(user) == user.subscriptionStatus = "active"

\* C5 as stated: a process request of an active account is not answered
\* 403, it invokes the AI generator and creates a SolveRecord, and the
\* account's freeAttempts stays as it is.
C5_ActiveAlwaysServed ==
  [][/\ \A r \in Reqs, s \in Sessions, text \in Texts, fileUrl \in FileUrls :
          (ProcessBy(r, s, text, fileUrl) /\ IsActive(getUser(sessions[s])))
          => /\ reqs'[r].pc = "ai"
             /\ UNCHANGED usersData
     /\ \A r \in Reqs, solution \in Solutions \cup {"throw"} :
          (ProcessFinish(r, solution) /\ IsActive(reqs[r].user))
          => /\ Len(assignmentsData') = Len(assignmentsData) + 1
             /\ UNCHANGED usersData]_vars

\* C5 amended: a process request of an active account is never answered
\* 403, whatever its freeAttempts; when it carries a text the AI generator
\* is invoked, and when the generator returns a SolveRecord is created and
\* the answer is 200 (without a text the answer is 400, when the generator
\* fails it is 500, and no SolveRecord is created).  No step of the request
\* changes the account.
C5_ActiveBypassesCounter ==
  [][/\ \A r \in Reqs, s \in Sessions, text \in Texts, fileUrl \in FileUrls :
          (ProcessBy(r, s, text, fileUrl) /\ IsActive(getUser(sessions[s])))
          => /\ resp' # Respond("process", 403)
             /\ IF text = "" THEN resp' = Respond("process", 400) /\ NoAiCall
                ELSE reqs'[r].pc = "ai" /\ IsActive(reqs'[r].user)
             /\ UNCHANGED store
     /\ \A r \in Reqs, solution \in Solutions \cup {"throw"} :
          (ProcessFinish(r, solution) /\ IsActive(reqs[r].user))
          => /\ IF solution = "throw"
                  THEN /\ resp' = Respond("process", 500)
                       /\ UNCHANGED assignmentsData
                  ELSE /\ resp' = Respond("process", 200)
                       /\ Len(assignmentsData') = Len(assignmentsData) + 1
                       /\ assignmentsData'[Len(assignmentsData')].userId
                            = reqs[r].userId
             /\ UNCHANGED usersData]_vars

C5_Witness ==
  /\ resp = Respond("process", 200)
  /\ \E u \in Users :
       /\ IsActive(u)
       /\ u.freeAttempts = 0
       /\ Len(assignmentsData) > InitialFreeAttempts
       /\ assignmentsData[Len(assignmentsData)].userId = u.id

\* A step that is a /api/payment/verify request in a session that carries
\* an account id.
VerifyBy(s, orderId, paymentId, signature) ==
  /\ resp'.kind = "verify"
  /\ Authenticated(s)
  /\ PaymentVerify(s, orderId, paymentId, signature)

\* C6: a verify request that returns 200 for an order whose PaymentRecord
\* is a pack leaves the account with its former freeAttempts plus 20, and
\* with its subscriptionStatus and subscriptionExpiresAt as they were.
C6_PackAddsTwenty ==
  [][\A s \in Sessions, orderId \in OrderIds, paymentId \in PaymentIds,
        signature \in Signatures :
       ( /\ resp' = Respond("verify", 200)
         /\ VerifyBy(s, orderId, paymentId, signature)
         /\ getPaymentByOrderId(orderId).planType = "pack" )
       => usersData' = MapSet(usersData, sessions[s],
            [getUser(sessions[s]) EXCEPT
               !.freeAttempts = getUser(sessions[s]).freeAttempts + 20])]_vars

C6_Witness ==
  /\ resp = Respond("verify", 200)
  /\ \E p \in Payments : p.planType = "pack" /\ p.status = "completed"
  /\ \E u \in Users : IsFree(u) /\ u.freeAttempts = 20 + 1

\* C7: a verify request that returns 200 for an order whose PaymentRecord
\* is monthly leaves the account active, with subscriptionExpiresAt 30 days
\* after the time of the request and freeAttempts as it was.
C7_MonthlyActivates ==
  [][\A s \in Sessions, orderId \in OrderIds, paymentId \in PaymentIds,
        signature \in Signatures :
       ( /\ resp' = Respond("verify", 200)
         /\ VerifyBy(s, orderId, paymentId, signature)
         /\ getPaymentByOrderId(orderId).planType = "monthly" )
       => usersData' = MapSet(usersData, sessions[s],
            [getUser(sessions[s]) EXCEPT
               !.subscriptionStatus = "active",
               !.subscriptionExpiresAt = now + 30])]_vars

C7_Witness ==
  /\ resp = Respond("verify", 200)
  /\ now > 0
  /\ \E p \in Payments :
       p.planType = "monthly" /\ p.status = "completed" /\ p.timestamp < now
  /\ \E u \in Users : IsActive(u) /\ u.subscriptionExpiresAt = now + 30

\* The signature is the HMAC-SHA256 of orderId|paymentId under the
\* server's secret.
Genuine(orderId, paymentId, signature) ==
  signature = HmacSha256(razorpayKeySecret, orderId \o "|" \o paymentId)

SecretConfigured == envSecret \notin {"", "dummy_secret"}

\* C8: with a secret configured, verifyPayment accepts a signature exactly
\* when it is the HMAC-SHA256 of orderId|paymentId under that secret, so
\* the verify handler answers 400 exactly for the others.
C8_AcceptsExactlyHmac ==
  [][(resp'.kind = "verify" /\ SecretConfigured) =>
       \A s \in Sessions, orderId \in OrderIds, paymentId \in PaymentIds,
          signature \in Signatures :
         VerifyBy(s, orderId, paymentId, signature)
         => /\ verifyPayment(orderId, paymentId, signature)
                 <=> Genuine(orderId, paymentId, signature)
            /\ resp' = Respond("verify", 400)
                 <=> ~Genuine(orderId, paymentId, signature)]_vars

C8_Witness ==
  /\ SecretConfigured
  /\ resp = Respond("verify", 200)
  /\ \E p \in Payments : p.status = "completed"

\* C9: whatever the configuration, a verify request whose signature is not
\* the HMAC of orderId|paymentId is not accepted: it completes no
\* PaymentRecord and credits no account.
C9_ForgeryRejected ==
  [][\A s \in Sessions, orderId \in OrderIds, paymentId \in PaymentIds,
        signature \in Signatures :
       ( /\ VerifyBy(s, orderId, paymentId, signature)
         /\ ~Genuine(orderId, paymentId, signature) )
       => /\ ~verifyPayment(orderId, paymentId, signature)
          /\ UNCHANGED <<usersData, paymentsData>>]_vars

\* C10: a verify request is answered 400 when its signature is invalid,
\* whether or not the order is known, and 404 when its signature is valid
\* and no PaymentRecord has the order id; in both cases no PaymentRecord
\* and no account changes.
C10_InvalidThenUnknown ==
  [][\A s \in Sessions, orderId \in OrderIds, paymentId \in PaymentIds,
        signature \in Signatures :
       VerifyBy(s, orderId, paymentId, signature)
       => IF ~Genuine(orderId, paymentId, signature)
            THEN resp' = Respond("verify", 400) /\ UNCHANGED store
          ELSE IF getPaymentByOrderId(orderId) = Undefined
            THEN resp' = Respond("verify", 404) /\ UNCHANGED store
          ELSE TRUE]_vars

\* A step that stores the PaymentRecord of an initiate request.
InitiateStores ==
  \E r \in Reqs, orderId \in GatewayOrderIds : InitiateFinish(r, orderId)

\* A step that is a verify request whose signature check succeeded and that
\* writes `paymentId` into a PaymentRecord.
VerifyCompletes(paymentId) ==
  \E s \in Sessions, orderId \in OrderIds, signature \in Signatures :
    /\ verifyPayment(orderId, paymentId, signature)
    /\ PaymentVerify(s, orderId, paymentId, signature)

\* C11: every PaymentRecord is created by an initiate request, pending and
\* without a payment identifier; its status changes only from pending to
\* completed, in a verify request whose signature check succeeded and whose
\* update also sets the payment identifier; a completed record has a
\* payment identifier in every reachable state and never returns to pending.
C11_PaymentLifecycle ==
  /\ [](\A p \in Payments : p.status = "completed" => p.paymentId # "")
  /\ [][/\ Len(paymentsData') >= Len(paymentsData)
        /\ \A i \in (Len(paymentsData) + 1)..Len(paymentsData') :
             /\ paymentsData'[i].status = "pending"
             /\ paymentsData'[i].paymentId = ""
             /\ InitiateStores
        /\ \A i \in 1..Len(paymentsData) :
             /\ paymentsData[i].status = "completed"
                  => paymentsData'[i].status = "completed"
             /\ paymentsData'[i].status # paymentsData[i].status
                  => /\ paymentsData[i].status = "pending"
                     /\ paymentsData'[i].status = "completed"
                     /\ paymentsData'[i].paymentId # ""
                     /\ VerifyCompletes(paymentsData'[i].paymentId)]_vars

\* The two strings are equal when letter case is ignored.
SameIgnoringCase(a, b) == toLowerCase(a) = toLowerCase(b)

\* The body names the email or the username of a stored account.
Taken(body) ==
  \E u \in Users :
    \/ SameIgnoringCase(u.email, body.email)
    \/ SameIgnoringCase(u.username, body.username)

\* No two stored accounts share an email or a username, letter case ignored.
UniqueIgnoringCase ==
  \A i, j \in 1..Len(usersData) :
    i # j => /\ ~SameIgnoringCase(usersData[i].email, usersData[j].email)
             /\ ~SameIgnoringCase(usersData[i].username, usersData[j].username)

\* The step starts no registration and changes no stored record.
NoAccountCreated == UNCHANGED <<store, reqs>>

\* C12 as stated: a signup whose email or username equals, ignoring case,
\* that of an existing account is answered 409 and creates no account; so
\* with signups handled one after another no two accounts share an email or
\* a username case-insensitively.
C12_DuplicateIs409 ==
  /\ []UniqueIgnoringCase
  /\ [][\A body \in SignupCaseBodies :
          (Taken(body) /\ SignupStart(1, body))
          => resp' = Respond("signup", 409) /\ NoAccountCreated]_vars

\* C12 amended: such a signup is answered 409 when its body passes the
\* registration schema and 400 when it does not; either way it creates no
\* account, and with signups handled one after another no two accounts
\* share an email or a username case-insensitively.
C12_DuplicateRejected ==
  /\ []UniqueIgnoringCase
  /\ [][\A body \in SignupCaseBodies :
          (Taken(body) /\ SignupStart(1, body))
          => /\ resp' = Respond("signup",
                          IF ValidRegistration(body) THEN 409 ELSE 400)
             /\ NoAccountCreated]_vars

C12_Witness ==
  /\ resp = Respond("signup", 409)
  /\ Len(usersData) = 1
  /\ currentUserId = 2
  /\ \A r \in Reqs : reqs[r].kind # "signup"

\* C13: the account createUser stores, and returns, has freeAttempts 3 and
\* subscriptionStatus 'free' right after the insert, whatever the caller
\* gave for these two fields.
C13_NewAccountDefaults ==
  [][\A r \in Reqs :
       CreateUserEnd(r)
       => /\ MapGet(usersData', reqs[r].id).freeAttempts = 3
          /\ MapGet(usersData', reqs[r].id).subscriptionStatus = "free"
          /\ ret'.value = MapGet(usersData', reqs[r].id)]_vars

C13_Witness ==
  /\ ret.op = "createUser"
  /\ "freeAttempts" \in DOMAIN ret.arg
  /\ ret.arg.freeAttempts # 3
  /\ ret.arg.subscriptionStatus # "free"
  /\ getUser(ret.value.id).freeAttempts = 3
  /\ getUser(ret.value.id).subscriptionStatus = "free"

\* The fetched record has every field of the inserted one, with its value.
Carries(fetched, inserted) ==
  \A f \in DOMAIN inserted : fetched[f] = inserted[f]

\* C14 as stated: for each record kind, the record fetched right after an
\* insert equals what was inserted in every field, plus the id the store
\* assigned and, for SolveRecord and PaymentRecord, the timestamp.
C14_RoundTrip ==
  [][/\ \A r \in Reqs, id \in RecordIds :
          (reqs[r].id = id /\ CreateUserEnd(r))
          => /\ Carries(getUser(id)', reqs[r].body)
             /\ getUser(id)'.id = id
     /\ \A assignment \in InsertAssignments, id \in RecordIds :
          (currentAssignmentId = id /\ CreateAssignment(assignment))
          => /\ Carries(getAssignment(id)', assignment)
             /\ getAssignment(id)'.id = id
             /\ getAssignment(id)'.timestamp = now
     /\ \A payment \in InsertPayments, id \in RecordIds :
          (currentPaymentId = id /\ CreatePayment(payment))
          => /\ Carries(getPaymentByOrderId(payment.orderId)', payment)
             /\ getPaymentByOrderId(payment.orderId)'.id = id
             /\ getPaymentByOrderId(payment.orderId)'.timestamp = now]_vars

\* C14 amended: a SolveRecord fetched by id right after its insert has
\* every inserted field, the assigned id and the timestamp of the insert.
\* So has a PaymentRecord fetched by its order id, unless an older record
\* has the same order id, which is then the one fetched.  An Account
\* fetched by id right after its insert has the inserted username, email
\* and subscriptionExpiresAt and the assigned id; its password is the bcrypt
\* hash of the inserted one, not the inserted one, and its freeAttempts and
\* subscriptionStatus are 3 and 'free'.
C14_RoundTripStored ==
  [][/\ \A r \in Reqs, id \in RecordIds :
          (reqs[r].id = id /\ CreateUserEnd(r))
          => /\ getUser(id)'.id = id
             /\ getUser(id)'.username = reqs[r].body.username
             /\ getUser(id)'.email = reqs[r].body.email
             /\ "subscriptionExpiresAt" \in DOMAIN reqs[r].body
                  => getUser(id)'.subscriptionExpiresAt
                       = reqs[r].body.subscriptionExpiresAt
             /\ getUser(id)'.password # reqs[r].body.password
             /\ BcryptCompare(reqs[r].body.password, getUser(id)'.password)
             /\ getUser(id)'.freeAttempts = 3
             /\ getUser(id)'.subscriptionStatus = "free"
     /\ \A assignment \in InsertAssignments, id \in RecordIds :
          (currentAssignmentId = id /\ CreateAssignment(assignment))
          => /\ Carries(getAssignment(id)', assignment)
             /\ getAssignment(id)'.id = id
             /\ getAssignment(id)'.timestamp = now
     /\ \A payment \in InsertPayments, id \in RecordIds :
          (currentPaymentId = id /\ CreatePayment(payment))
          => IF \E old \in Payments : old.orderId = payment.orderId
               THEN getPaymentByOrderId(payment.orderId)'
                      = getPaymentByOrderId(payment.orderId)
               ELSE /\ Carries(getPaymentByOrderId(payment.orderId)', payment)
                    /\ getPaymentByOrderId(payment.orderId)'.id = id
                    /\ getPaymentByOrderId(payment.orderId)'.timestamp = now]_vars

C14_Witness ==
  /\ ret.op = "createAssignment"
  /\ "processedOutputUrl" \in DOMAIN ret.arg
  /\ now > 0
  /\ getAssignment(ret.value.id) = ret.value
  /\ Carries(ret.value, ret.arg)
  /\ ret.value.timestamp = now
  /\ ret.value.id = 2

\* Map `after` is map `before` with the fields named in `updates` replaced
\* in the record of key id, when there is one, and is `before` otherwise.
OnlyNamedFieldsReplaced(before, after, id, updates) ==
  IF \A i \in 1..Len(before) : before[i].id # id THEN after = before
  ELSE /\ Len(after) = Len(before)
       /\ \A i \in 1..Len(before) :
            IF before[i].id # id THEN after[i] = before[i]
            ELSE /\ DOMAIN after[i] = DOMAIN before[i]
                 /\ \A f \in DOMAIN updates : after[i][f] = updates[f]
                 /\ \A f \in DOMAIN before[i] \ DOMAIN updates :
                      after[i][f] = before[i][f]

\* What the update call returned: the not-found sentinel for an absent id,
\* the record as stored for a present one.
ReturnsStoredOrUndefined(before, after, id) ==
  ret'.value = IF \A i \in 1..Len(before) : before[i].id # id THEN Undefined
               ELSE MapGet(after, id)

\* The step is the call op(id, updates) of the store.
Calls(op, id, updates) ==
  /\ ret'.op = op
  /\ ret'.arg = [id |-> id, updates |-> updates]

\* C15: for each record kind, a partial update of an absent id returns the
\* not-found sentinel and changes nothing in the store; of a present id it
\* replaces exactly the fields the update names, leaves the record's other
\* fields, its id included, and every other record as they were, and takes
\* no new id.
C15_PartialUpdate ==
  [][/\ \A id \in RecordIds, updates \in UserUpdates :
          (Calls("updateUser", id, updates) /\ UpdateUser(id, updates))
          => /\ OnlyNamedFieldsReplaced(usersData, usersData', id, updates)
             /\ ReturnsStoredOrUndefined(usersData, usersData', id)
             /\ UNCHANGED <<assignmentsData, paymentsData, currentUserId,
                            currentAssignmentId, currentPaymentId>>
     /\ \A id \in RecordIds, updates \in AssignmentUpdates :
          (Calls("updateAssignment", id, updates) /\ UpdateAssignment(id, updates))
          => /\ OnlyNamedFieldsReplaced(assignmentsData, assignmentsData', id,
                                        updates)
             /\ ReturnsStoredOrUndefined(assignmentsData, assignmentsData', id)
             /\ UNCHANGED <<usersData, paymentsData, currentUserId,
                            currentAssignmentId, currentPaymentId>>
     /\ \A id \in RecordIds, updates \in PaymentUpdates :
          (Calls("updatePayment", id, updates) /\ UpdatePayment(id, updates))
          => /\ OnlyNamedFieldsReplaced(paymentsData, paymentsData', id, updates)
             /\ ReturnsStoredOrUndefined(paymentsData, paymentsData', id)
             /\ UNCHANGED <<usersData, assignmentsData, currentUserId,
                            currentAssignmentId, currentPaymentId>>]_vars

C15_Witness ==
  /\ ret.op = "updateUser"
  /\ ret.arg.updates = [freeAttempts |-> 0]
  /\ ret.value # Undefined
  /\ Len(usersData) = 2
  /\ getUser(ret.arg.id).freeAttempts = 0
  /\ \E u \in Users : u.id # ret.arg.id /\ u.freeAttempts = InitialFreeAttempts
  /\ currentUserId = 3

SupportedTypes ==
  { "application/pdf",
    "application/vnd.openxmlformats-officedocument.wordprocessingml.document",
    "application/vnd.openxmlformats-officedocument.spreadsheetml.sheet",
    "image/jpeg", "image/png" }

\* C18: for a media type other than PDF, DOCX, XLSX, JPEG and PNG the
\* extractor fails at once with the unsupported-media-type condition (the
\* error that names the type): no strategy runs and no temporary file or
\* temporary name is made.
C18_UnsupportedType ==
  [][\A mimeType \in MimeTypes \ SupportedTypes,
        parsed \in SheetTexts \cup {"throw"} :
       ExtractText(mimeType, parsed)
       => /\ ext'.pc = "failed"
          /\ ext'.error = "Unsupported file type: " \o mimeType
          /\ UNCHANGED <<tmpFiles, nextUuid>>]_vars

\* C19: when no extraction is running, that is once every extraction has
\* returned or failed, no temporary file is left.
C19_NoTempFileLeft == ~Running => tmpFiles = {}

\* A step in which extractFromImage throws: the write of its temporary
\* file, the creation or the initialisation of the worker, the recognition
\* or the termination of the worker failed.
OcrFails ==
  \/ \E left \in BOOLEAN : OcrWrite(FALSE, left)
  \/ OcrWorker(FALSE)
  \/ OcrInit(FALSE)
  \/ OcrRecognize("throw")
  \/ OcrTerminate(FALSE)

\* extractFromPdf hands what it had when it entered its finally block to
\* extractText: a text is returned, an error makes the extraction fail.
FinallyKeepsOutcome ==
  PdfCleanup => IF ext.error = ""
                  THEN ext'.pc = "returned" /\ ext'.out = ext.out
                  ELSE ext'.pc = "failed"

\* C20 as stated: when OCR fails on the PDF path, as the fallback for an
\* empty or short text or as the fallback after the parser failed, the PDF
\* extraction returns the placeholder; when OCR fails for a JPEG or PNG the
\* extraction fails.
C20_OcrFailure ==
  [][/\ OcrFails
          => IF ext.mimeType = "application/pdf"
               THEN /\ ext'.pc = "pdf_finally"
                    /\ ext'.out = PdfImageBasedNotice
                    /\ ext'.error = ""
               ELSE ext'.pc = "failed"
     /\ FinallyKeepsOutcome]_vars

\* C20 amended: when OCR fails as the fallback for an empty or short PDF
\* text, the PDF extraction returns the placeholder; when OCR fails as the
\* fallback after the PDF parser, or the write of the PDF's temporary
\* file, failed, the extraction fails; when OCR fails for a JPEG or PNG the
\* extraction fails.
C20_OcrFailureByPath ==
  [][/\ OcrFails
          => IF ext.mimeType = "application/pdf" /\ ext.ocr = "short"
               THEN /\ ext'.pc = "pdf_finally"
                    /\ ext'.out = PdfImageBasedNotice
                    /\ ext'.error = ""
             ELSE IF ext.mimeType = "application/pdf"
               THEN /\ ext.ocr = "failed"
                    /\ ext'.pc = "pdf_finally"
                    /\ ext'.error # ""
             ELSE ext'.pc = "failed"
     /\ FinallyKeepsOutcome]_vars

C20_Witness ==
  /\ ext.pc = "returned"
  /\ ext.mimeType = "application/pdf"
  /\ ext.ocr = "short"
  /\ ext.out = PdfImageBasedNotice

\* The step answers `kind` with 401 and does nothing else: no stored record,
\* counter or session changes, no handler is left waiting for the AI
\* generator, the PDF renderer, the file store or the payment gateway, and
\* the extractor is not started.
Only401(kind) ==
  /\ resp' = Respond(kind, 401)
  /\ UNCHANGED <<store, sessions, reqs, extractor>>

\* A step that is a request in session s to one of the seven routes behind
\* the authenticate middleware is answered 401 and does nothing else.
Refused(s) ==
  /\ GetUserInfo(s) => Only401("user")
  /\ GetAssignments(s) => Only401("assignments")
  /\ \A r \in Reqs, file \in Files : UploadStart(r, s, file) => Only401("upload")
  /\ \A r \in Reqs, text \in Texts, fileUrl \in FileUrls :
       ProcessStart(r, s, text, fileUrl) => Only401("process")
  /\ \A r \in Reqs, solution \in Solutions \cup {""} :
       GeneratePdfStart(r, s, solution) => Only401("generate-pdf")
  /\ \A r \in Reqs, plan \in Plans :
       InitiateStart(r, s, plan) => Only401("initiate")
  /\ \A orderId \in OrderIds, paymentId \in PaymentIds, signature \in Signatures :
       PaymentVerify(s, orderId, paymentId, signature) => Only401("verify")

\* C16: a request to /api/user, /api/upload, /api/process,
\* /api/generate-pdf, /api/assignments, /api/payment/initiate or
\* /api/payment/verify in a session that carries no account id is answered
\* 401, changes no stored record and invokes neither the extractor, the AI
\* generator, the PDF renderer nor the payment bridge.
C16_NoSession401 ==
  [][\A s \in Sessions : sessions[s] = 0 => Refused(s)]_vars

C16_Witness ==
  /\ resp = Respond("verify", 401)
  /\ \A s \in Sessions : sessions[s] = 0
  /\ \E p \in Payments : p.status = "pending"
  /\ \E u \in Users : u.freeAttempts < InitialFreeAttempts

\* The stored hash is the hash of this password.
HashOf(password, hash) == hash = BcryptHash(password)

\* A step that ends a login request in session s whose email is that of
\* the stored account `u`, letter case ignored, and whose password matches
\* the hash stored for u.
LoggedIn(s, u) ==
  \E r \in Reqs :
    /\ reqs[r].kind = "login"
    /\ reqs[r].sess = s
    /\ LoginFinish(r)
    /\ SameIgnoringCase(u.email, reqs[r].body.email)
    /\ HashOf(reqs[r].body.password, u.password)

\* The login body names no account, or a password that is not the one of
\* the account it names.
FailsACheck(body) ==
  \A u \in Users :
    SameIgnoringCase(u.email, body.email) => ~HashOf(body.password, u.password)

Assignments == {assignmentsData[i] : i \in 1..Len(assignmentsData)}

\* The response is the history of the account of session s.
HistoryOf(s) ==
  /\ resp.kind = "assignments"
  /\ resp.status = 200
  /\ sessions[s] # 0

\* The response holds every record of the account, once, and no other.
ExactlyOwned(s) ==
  /\ {resp.body[i] : i \in 1..Len(resp.body)}
       = {a \in Assignments : a.userId = sessions[s]}
  /\ \A i, j \in 1..Len(resp.body) : resp.body[i] = resp.body[j] => i = j

\* createAssignment numbers the records in the order it creates them.
CreatedLater(a, b) == a.id > b.id

\* C21: GET /api/assignments returns exactly the SolveRecords of the
\* session's account, and of any two records in the response the one
\* created later comes before the one created earlier.
C21_HistoryLatestFirst ==
  [][\A s \in Sessions :
       (GetAssignments(s) /\ HistoryOf(s)')
       => /\ ExactlyOwned(s)'
          /\ \A i, j \in 1..Len(resp'.body) :
               CreatedLater(resp'.body[i], resp'.body[j]) => i < j]_vars

\* The step adds one SolveRecord, for the account and with the solution of
\* a process request whose AI call returned, and that request gets its 200.
CreatedByGeneration ==
  \E r \in Reqs, solution \in Solutions :
    /\ reqs[r].kind = "process"
    /\ reqs[r].pc = "ai"
    /\ ProcessFinish(r, solution)
    /\ resp' = Respond("process", 200)
    /\ Len(assignmentsData') = Len(assignmentsData) + 1
    /\ SubSeq(assignmentsData', 1, Len(assignmentsData)) = assignmentsData
    /\ assignmentsData'[Len(assignmentsData')].userId = reqs[r].userId
    /\ assignmentsData'[Len(assignmentsData')].solution = solution

\* C22: when the AI generator fails during POST /api/process the response
\* is 500, no SolveRecord is created and no account's freeAttempts changes;
\* and every SolveRecord enters the store in the step of a process request
\* whose AI call succeeded.
C22_AiFailure ==
  [][/\ \A r \in Reqs :
          (reqs[r].kind = "process" /\ reqs[r].pc = "ai"
             /\ ProcessFinish(r, "throw"))
          => /\ resp' = Respond("process", 500)
             /\ UNCHANGED <<assignmentsData, currentAssignmentId, usersData>>
     /\ assignmentsData' # assignmentsData => CreatedByGeneration]_vars

C22_Witness ==
  /\ resp = Respond("process", 500)
  /\ Len(assignmentsData) = 1
  /\ \E u \in Users : u.freeAttempts = InitialFreeAttempts - 1
  /\ \A r \in Reqs : reqs[r].pc = "idle"

IdsOf(m) == {m[i].id : i \in 1..Len(m)}

DistinctIds(m) == \A i, j \in 1..Len(m) : m[i].id = m[j].id => i = j

\* The createUser calls that have taken their id and await the hash.
Hashing == {r \in Reqs : reqs[r].pc = "hash"}

\* The ids given out so far are 1, 2, ... up to the counter, each once:
\* to a stored record or, for accounts, to a createUser call still waiting
\* for its hash.
IdsDenseAndDistinct ==
  /\ DistinctIds(usersData)
  /\ DistinctIds(assignmentsData)
  /\ DistinctIds(paymentsData)
  /\ \A r, q \in Hashing : reqs[r].id = reqs[q].id => r = q
  /\ \A r \in Hashing : reqs[r].id \notin IdsOf(usersData)
  /\ IdsOf(usersData) \cup {reqs[r].id : r \in Hashing} = 1..(currentUserId - 1)
  /\ IdsOf(assignmentsData) = 1..(currentAssignmentId - 1)
  /\ IdsOf(paymentsData) = 1..(currentPaymentId - 1)

\* An insert that begins in this step takes the counter's value, which is
\* above every id taken before, and advances the counter by one; nothing
\* else moves a counter, and a record keeps the id it was stored with.
IdsInBeginOrder ==
  /\ \A r \in Reqs :
       (r \notin Hashing /\ r \in Hashing')
       => reqs'[r].id = currentUserId /\ currentUserId' = currentUserId + 1
  /\ currentUserId' # currentUserId
       => \E r \in Reqs : r \notin Hashing /\ r \in Hashing'
  /\ \A r \in Hashing \cap Hashing' : reqs'[r].id = reqs[r].id
  /\ \A r \in Hashing \ Hashing' :
       /\ MapGet(usersData, reqs[r].id) = Undefined
       /\ MapGet(usersData', reqs[r].id).id = reqs[r].id
  /\ IdsOf(usersData) \subseteq IdsOf(usersData')
  /\ IF assignmentsData' # assignmentsData /\ Len(assignmentsData') > Len(assignmentsData)
       THEN /\ assignmentsData'[Len(assignmentsData')].id = currentAssignmentId
            /\ currentAssignmentId' = currentAssignmentId + 1
       ELSE currentAssignmentId' = currentAssignmentId
  /\ IF paymentsData' # paymentsData /\ Len(paymentsData') > Len(paymentsData)
       THEN /\ paymentsData'[Len(paymentsData')].id = currentPaymentId
            /\ currentPaymentId' = currentPaymentId + 1
       ELSE currentPaymentId' = currentPaymentId
  /\ \A i \in 1..Len(assignmentsData) : assignmentsData'[i].id = assignmentsData[i].id
  /\ \A i \in 1..Len(paymentsData) : paymentsData'[i].id = paymentsData[i].id
  /\ \A i \in 1..Len(usersData) : usersData'[i].id = usersData[i].id

\* C23: for each record kind the ids assigned by insert are pairwise
\* distinct, start at 1, increase by one in the order the insert calls
\* begin and are never reused, also when createUser calls overlap at the
\* await of the password hash.
C23_IdAllocation == []IdsDenseAndDistinct /\ [][IdsInBeginOrder]_vars

\* Two createUser calls overlapped and the one that began later stored its
\* record first.
C23_Witness ==
  /\ Len(usersData) = 2
  /\ usersData[1].id = 2
  /\ usersData[2].id = 1

\* Request r of the free account `id` waits for the AI generator.
InFlight(r, id) ==
  /\ reqs[r].kind = "process"
  /\ reqs[r].pc = "ai"
  /\ reqs[r].userId = id
  /\ reqs[r].user.subscriptionStatus = "free"

AccountIds == 1..(MaxUsers + 1)

\* C24: nothing serializes the read-modify-write of an account by
\* POST /api/process. A request of a free account that read the counter v
\* does not hold back a later request of the account, which reads the
\* stored counter as it is; and on success it answers 200, creates its
\* SolveRecord and stores max(0, v - 1) whatever the counter has become
\* meanwhile; so two overlapping requests that both read v >= 1 leave
\* v - 1, not v - 2.
C24_LostUpdate ==
  [][\A r \in Reqs, id \in AccountIds :
       InFlight(r, id) =>
         /\ \A solution \in Solutions :
              ProcessFinish(r, solution)
              => /\ resp' = Respond("process", 200)
                 /\ Len(assignmentsData') = Len(assignmentsData) + 1
                 /\ getUser(id)'.freeAttempts
                      = Max(0, reqs[r].user.freeAttempts - 1)
         /\ \A q \in Reqs \ {r}, s \in Sessions, fileUrl \in FileUrls :
              ( /\ sessions[s] = id
                /\ IsFree(getUser(id))
                /\ getUser(id).freeAttempts >= 1
                /\ ProcessStart(q, s, "q", fileUrl) )
              => /\ reqs'[q].pc = "ai"
                 /\ reqs'[q].userId = id
                 /\ reqs'[q].user.freeAttempts = getUser(id).freeAttempts]_vars

\* Both of two overlapping requests were served and the counter went down
\* by one.
C24_Witness ==
  /\ Len(assignmentsData) = 2
  /\ Len(usersData) = 1
  /\ paymentsData = <<>>
  /\ assignmentsData[1].userId = 1
  /\ assignmentsData[2].userId = 1
  /\ getUser(1).freeAttempts = InitialFreeAttempts - 1
  /\ \A r \in Reqs : reqs[r].pc = "idle"
  /\ resp = Respond("process", 200)

\* Two stored accounts have the same email, letter case ignored.
SameEmail(u, w) == u # w /\ SameIgnoringCase(u.email, w.email)

\* C25 as stated: of two stored accounts with the same email, fetch by
\* email returns the one with the lower id.
C25_FetchLowerId ==
  \A u, w \in Users :
    (SameEmail(u, w) /\ u.id < w.id) => getUserByEmail(w.email) = u

\* Of the stored accounts with the email of usersData[i], the one whose
\* createUser call stored first.
FirstStored(i) ==
  usersData[CHOOSE j \in 1..Len(usersData) :
              /\ SameIgnoringCase(usersData[j].email, usersData[i].email)
              /\ \A k \in 1..(j - 1) :
                   ~SameIgnoringCase(usersData[k].email, usersData[i].email)]

\* The uniqueness check looks at stored accounts only: a valid signup that
\* matches none of them goes on to createUser whatever other signups are
\* waiting for their hash, and a signup whose hash is done is stored and
\* answered 201 without a second look.
CheckedBeforeInsertOnly ==
  /\ \A r \in Reqs, body \in SignupCaseBodies :
       (ValidRegistration(body) /\ ~Taken(body) /\ SignupStart(r, body))
       => reqs'[r].pc = "hash" /\ reqs'[r].body = body
  /\ \A r \in Reqs :
       (reqs[r].kind = "signup" /\ SignupFinish(r))
       => /\ resp' = Respond("signup", 201)
          /\ Len(usersData') = Len(usersData) + 1
          /\ usersData'[Len(usersData')].email = reqs[r].body.email
          /\ usersData'[Len(usersData')].id = reqs[r].id

\* C25: uniqueness of email and username rests on the check before insert
\* alone, so two overlapping signups with the same email can both be
\* answered 201 and leave two accounts with that email; fetch by email
\* then returns the one that was stored first.
C25_SignupRace ==
  /\ [](\A i \in 1..Len(usersData) :
          getUserByEmail(usersData[i].email) = FirstStored(i))
  /\ [][CheckedBeforeInsertOnly]_vars

\* Two accounts with one email, and the one that began later (id 2) was
\* stored first.
C25_Witness ==
  /\ Len(usersData) = 2
  /\ SameEmail(usersData[1], usersData[2])
  /\ usersData[1].id = 2
  /\ getUserByEmail(usersData[2].email).id = 2
  /\ resp = Respond("signup", 201)

\* The PaymentRecord of the order is already completed.
AlreadyCompleted(orderId) ==
  /\ getPaymentByOrderId(orderId) # Undefined
  /\ getPaymentByOrderId(orderId).status = "completed"

PackRecords == {p \in Payments : p.planType = "pack"}

\* C26: a POST /api/payment/verify for an order whose PaymentRecord is
\* already 'completed' adds no attempts and sets no expiry again, so no
\* account's freeAttempts exceeds the initial 3 by more than 20 per pack
\* PaymentRecord. Stated for a server whose gateway secret is configured,
\* where only correctly signed requests get this far.
C26_BenefitOnce ==
  /\ [](SecretConfigured =>
          \A u \in Users :
            u.freeAttempts
              <= InitialFreeAttempts + PackAttempts * Cardinality(PackRecords))
  /\ [][SecretConfigured =>
          \A s \in Sessions, orderId \in OrderIds, paymentId \in PaymentIds,
             signature \in Signatures :
            (AlreadyCompleted(orderId)
               /\ PaymentVerify(s, orderId, paymentId, signature))
            => UNCHANGED usersData]_vars

\* The PaymentRecord of the order belongs to another account than the one
\* the session carries.
ForeignOrder(s, orderId) ==
  /\ sessions[s] # 0
  /\ getPaymentByOrderId(orderId) # Undefined
  /\ getPaymentByOrderId(orderId).userId # sessions[s]

\* C27: the benefit of a verified payment goes to the account that owns
\* the PaymentRecord only: a verify request sent in another account's
\* session for that order changes neither freeAttempts nor
\* subscriptionStatus of the sender. Stated for a server whose gateway
\* secret is configured.
C27_BenefitToOwnerOnly ==
  [][SecretConfigured =>
       \A s \in Sessions, id \in AccountIds, orderId \in OrderIds,
          paymentId \in PaymentIds, signature \in Signatures :
         ( /\ sessions[s] = id
           /\ getUser(id) # Undefined
           /\ ForeignOrder(s, orderId)
           /\ PaymentVerify(s, orderId, paymentId, signature) )
         => /\ getUser(id)'.freeAttempts = getUser(id).freeAttempts
            /\ getUser(id)'.subscriptionStatus = getUser(id).subscriptionStatus]_vars

\* The subscription of the account has run out.
Lapsed(user) ==
  /\ user.subscriptionStatus = "active"
  /\ user.subscriptionExpiresAt < now

GenerationsOf(u) == {a \in Assignments : a.userId = u.id}

NoPaymentCompleted == \A p \in Payments : p.status # "completed"

\* C29: a free account that started with its 3 attempts and completed no
\* payment has obtained at most 3 generations, however its process
\* requests interleave.
C29_AtMostNGenerations ==
  \A u \in Users :
    (IsFree(u) /\ NoPaymentCompleted)
    => Cardinality(GenerationsOf(u)) <= InitialFreeAttempts

\* Since request r read the account, a pack verify has added its 20
\* attempts to the stored counter.
CreditedSinceRead(r, id) ==
  /\ InFlight(r, id)
  /\ getUser(id).subscriptionStatus = "free"
  /\ getUser(id).freeAttempts = reqs[r].user.freeAttempts + PackAttempts
  /\ \E p \in PackRecords : p.status = "completed"

\* C30: a process request of a free account that read the counter v
\* before a pack verify of the account completed, and writes its decrement
\* after it, leaves v + 20 - 1 in the store.
C30_CreditKept ==
  [][\A r \in Reqs, id \in AccountIds, solution \in Solutions :
       (CreditedSinceRead(r, id) /\ ProcessFinish(r, solution))
       => getUser(id)'.freeAttempts
            = reqs[r].user.freeAttempts + PackAttempts - 1]_vars

====
